---- MODULE Spec2Model ----
(***************************************************************************)
(* A model of the fastmail-mcp server core: the JMAP client's session      *)
(* cache (getSession), its batch executor (makeRequest), the domain        *)
(* operations built on them (jmap-client.ts, contacts-calendar.ts) and the *)
(* two module-level client singletons of index.ts.                         *)
(*                                                                         *)
(* Every call of a public method is a process.  A process runs atomically  *)
(* from one `await fetch(...)` to the next, as the Node.js event loop runs *)
(* an async function; the remote service answers each exchange with any    *)
(* reply of a bounded set.                                                 *)
(***************************************************************************)
EXTENDS Naturals, Integers, Sequences, FiniteSets, TLC

VARIABLES
    jmapClient,             \* index.ts `let jmapClient`: has it been constructed
    contactsCalendarClient, \* index.ts `let contactsCalendarClient`
    session,                \* JmapClient.session of each client object
    calls,                  \* one record per call of a public method
    sessionRequests         \* history: bootstrap GETs sent, per client object

vars == <<jmapClient, contactsCalendarClient, session, calls, sessionRequests>>

(***************************************************************************)
(* Bounds of the model.                                                    *)
(***************************************************************************)
MaxCalls == 2        \* calls of public methods in one run of the server
MaxEmails == 2       \* email ids the caller and the service speak about
MaxMailboxes == 2    \* length of a Mailbox/get list

CallIds == 1..MaxCalls
EmailIds == 1..MaxEmails

(***************************************************************************)
(* Strings whose characters matter (mailbox names and roles) are sequences *)
(* of one-character strings, so that toLowerCase() and includes() are      *)
(* computed, not assumed.                                                  *)
(***************************************************************************)
UpperChars == <<"A", "B", "D", "I", "O", "S", "T", "X">>
LowerChars == <<"a", "b", "d", "i", "o", "s", "t", "x">>

\* String.prototype.toLowerCase, one character
LowerChar(c) ==
    IF \E k \in DOMAIN UpperChars : UpperChars[k] = c
    THEN LowerChars[CHOOSE k \in DOMAIN UpperChars : UpperChars[k] = c]
    ELSE c

\* String.prototype.toLowerCase
toLowerCase(s) == [k \in DOMAIN s |-> LowerChar(s[k])]

\* String.prototype.includes
includes(s, t) ==
    \E k \in 0..(Len(s) - Len(t)) : SubSeq(s, k + 1, k + Len(t)) = t

Str_inbox  == <<"i", "n", "b", "o", "x">>
Str_draft  == <<"d", "r", "a", "f", "t">>
Str_drafts == <<"d", "r", "a", "f", "t", "s">>
Str_sent   == <<"s", "e", "n", "t">>
Str_trash  == <<"t", "r", "a", "s", "h">>

\* a Mailbox object whose role is null
NullRole == <<"(null)">>

(***************************************************************************)
(* Container resolution.  A mailbox is [id, name, role]; the result is the *)
(* position of the selected mailbox in the list, 0 when find() returns     *)
(* undefined.                                                              *)
(***************************************************************************)
\* Array.prototype.find over the positions that satisfy the callback
find(matching) ==
    IF matching = {} THEN 0
    ELSE CHOOSE k \in matching : \A j \in matching : k <= j

\* mb => mb.role === role
roleIs(mailboxes, role) ==
    {k \in DOMAIN mailboxes : mailboxes[k].role = role}

\* mb => mb.name.toLowerCase().includes(text)
nameIncludes(mailboxes, text) ==
    {k \in DOMAIN mailboxes : includes(toLowerCase(mailboxes[k].name), text)}

\* a || b on two find() results
OrElse(a, b) == IF a # 0 THEN a ELSE b

draftsMailbox(mailboxes) ==
    OrElse(find(roleIs(mailboxes, Str_drafts)),
           find(nameIncludes(mailboxes, Str_draft)))

sentMailbox(mailboxes) ==
    OrElse(find(roleIs(mailboxes, Str_sent)),
           find(nameIncludes(mailboxes, Str_sent)))

\* a lookup that settles for the first mailbox when nothing matches
trashMailboxOrFirst(mailboxes) ==
    OrElse(OrElse(find(roleIs(mailboxes, Str_trash)),
                  find(nameIncludes(mailboxes, Str_trash))),
           find(DOMAIN mailboxes))

trashMailbox(mailboxes) ==
    OrElse(find(roleIs(mailboxes, Str_trash)),
           find(nameIncludes(mailboxes, Str_trash)))

targetMailbox(mailboxes, mailboxName) ==
    find(roleIs(mailboxes, toLowerCase(mailboxName))
           \cup nameIncludes(mailboxes, toLowerCase(mailboxName)))

(***************************************************************************)
(* JMAP requests.  A request is [using, methodCalls]; a method call is     *)
(* [name, args, label].  A JavaScript object whose values are all `true`   *)
(* (keywords, mailboxIds) is the set of its keys; {} is the empty set or   *)
(* the empty function; an absent optional string is "" and an absent       *)
(* optional id is 0; the key '#ids' is the field ref_ids.                  *)
(***************************************************************************)
\* a step that is given the same label whatever was asked
MethodCallUnlabelled(name, args, label) ==
    [name |-> name, args |-> args, label |-> "call"]

MethodCall(name, args, label) == [name |-> name, args |-> args, label |-> label]

UsingMail == <<"urn:ietf:params:jmap:core", "urn:ietf:params:jmap:mail">>
UsingSubmission == <<"urn:ietf:params:jmap:core", "urn:ietf:params:jmap:submission">>
UsingMailSubmission ==
    <<"urn:ietf:params:jmap:core", "urn:ietf:params:jmap:mail",
      "urn:ietf:params:jmap:submission">>
UsingContacts == <<"urn:ietf:params:jmap:core", "com:fastmail:contacts">>

\* a reference that takes the method name for the label
BackReferenceByName(resultOf, name, path) ==
    [resultOf |-> name, name |-> name, path |-> path]

\* { resultOf, name, path }
BackReference(resultOf, name, path) ==
    [resultOf |-> resultOf, name |-> name, path |-> path]

getMailboxesRequest(s) ==
    [using |-> UsingMail,
     methodCalls |-> <<MethodCall("Mailbox/get", [accountId |-> s.accountId],
                                  "mailboxes")>>]

getEmailsRequest(s, mailboxId, limit) ==
    [using |-> UsingMail,
     methodCalls |-> <<
        MethodCall("Email/query",
            [accountId |-> s.accountId,
             filter |-> IF mailboxId # 0 THEN [inMailbox |-> mailboxId] ELSE <<>>,
             sort |-> <<[property |-> "receivedAt", isAscending |-> FALSE]>>,
             limit |-> limit],
            "query"),
        MethodCall("Email/get",
            [accountId |-> s.accountId,
             ref_ids |-> BackReference("query", "Email/query", "/ids"),
             properties |-> <<"id", "subject", "from", "to", "receivedAt",
                              "preview", "hasAttachment">>],
            "emails") >>]

\* the search_emails tool builds its batch in the handler
searchEmailsRequest(s, query, limit) ==
    [using |-> UsingMail,
     methodCalls |-> <<
        MethodCall("Email/query",
            [accountId |-> s.accountId,
             filter |-> [text |-> query],
             sort |-> <<[property |-> "receivedAt", isAscending |-> FALSE]>>,
             limit |-> limit],
            "query"),
        MethodCall("Email/get",
            [accountId |-> s.accountId,
             ref_ids |-> BackReference("query", "Email/query", "/ids"),
             properties |-> <<"id", "subject", "from", "to", "receivedAt",
                              "preview", "hasAttachment">>],
            "emails") >>]

getIdentitiesRequest(s) ==
    [using |-> UsingSubmission,
     methodCalls |-> <<MethodCall("Identity/get", [accountId |-> s.accountId],
                                  "identities")>>]

\* a minimum that lets the first value through
uncapped(a, b) == a

\* Math.min
Min(a, b) == IF a <= b THEN a ELSE b

RecentLimitCap == 50

getRecentEmailsRequest(s, limit, target) ==
    [using |-> UsingMail,
     methodCalls |-> <<
        MethodCall("Email/query",
            [accountId |-> s.accountId,
             filter |-> [inMailbox |-> target.id],
             sort |-> <<[property |-> "receivedAt", isAscending |-> FALSE]>>,
             limit |-> Min(limit, RecentLimitCap)],
            "query"),
        MethodCall("Email/get",
            [accountId |-> s.accountId,
             ref_ids |-> BackReference("query", "Email/query", "/ids"),
             properties |-> <<"id", "subject", "from", "to", "receivedAt",
                              "preview", "hasAttachment", "keywords">>],
            "emails") >>]

\* read ? { $seen: true } : {}
seenKeywords(read) == IF read THEN {"$seen"} ELSE {}

markEmailReadRequest(s, emailId, read) ==
    [using |-> UsingMail,
     methodCalls |-> <<
        MethodCall("Email/set",
            [accountId |-> s.accountId,
             update |-> [e \in {emailId} |-> [keywords |-> seenKeywords(read)]]],
            "updateEmail") >>]

deleteEmailRequest(s, emailId, trash) ==
    [using |-> UsingMail,
     methodCalls |-> <<
        MethodCall("Email/set",
            [accountId |-> s.accountId,
             update |-> [e \in {emailId} |-> [mailboxIds |-> {trash.id}]]],
            "moveToTrash") >>]

moveEmailRequest(s, emailId, targetMailboxId) ==
    [using |-> UsingMail,
     methodCalls |-> <<
        MethodCall("Email/set",
            [accountId |-> s.accountId,
             update |-> [e \in {emailId} |-> [mailboxIds |-> {targetMailboxId}]]],
            "moveEmail") >>]

\* emailIds.forEach(id => { updates[id] = patch })
Range(seq) == {seq[k] : k \in DOMAIN seq}

bulkMarkReadRequest(s, emailIds, read) ==
    [using |-> UsingMail,
     methodCalls |-> <<
        MethodCall("Email/set",
            [accountId |-> s.accountId,
             update |-> [e \in Range(emailIds) |-> [keywords |-> seenKeywords(read)]]],
            "bulkUpdate") >>]

bulkMoveRequest(s, emailIds, targetMailboxId) ==
    [using |-> UsingMail,
     methodCalls |-> <<
        MethodCall("Email/set",
            [accountId |-> s.accountId,
             update |-> [e \in Range(emailIds) |-> [mailboxIds |-> {targetMailboxId}]]],
            "bulkMove") >>]

bulkDeleteRequest(s, emailIds, trash) ==
    [using |-> UsingMail,
     methodCalls |-> <<
        MethodCall("Email/set",
            [accountId |-> s.accountId,
             update |-> [e \in Range(emailIds) |-> [mailboxIds |-> {trash.id}]]],
            "bulkDelete") >>]

\* addrs.map(addr => ({ email: addr }))
mapAddresses(addrs) == [k \in DOMAIN addrs |-> [email |-> addrs[k]]]

sendEmailRequest(s, email, identity, fromEmail, initialMailboxId, sent) ==
    [using |-> UsingMailSubmission,
     methodCalls |-> <<
        MethodCall("Email/set",
            [accountId |-> s.accountId,
             create |-> [draft |->
                [mailboxIds |-> {initialMailboxId},
                 keywords |-> {"$draft"},
                 from |-> <<[email |-> fromEmail]>>,
                 to |-> mapAddresses(email.to),
                 cc |-> mapAddresses(email.cc),
                 bcc |-> mapAddresses(email.bcc),
                 subject |-> email.subject,
                 textBody |-> IF email.textBody # ""
                              THEN <<[partId |-> "text", type |-> "text/plain"]>>
                              ELSE <<>>,
                 htmlBody |-> IF email.htmlBody # ""
                              THEN <<[partId |-> "html", type |-> "text/html"]>>
                              ELSE <<>>,
                 bodyValues |-> [text |-> email.textBody, html |-> email.htmlBody]]]],
            "createEmail"),
        MethodCall("EmailSubmission/set",
            [accountId |-> s.accountId,
             create |-> [submission |->
                [emailId |-> "#draft",
                 identityId |-> identity.id,
                 envelope |-> [mailFrom |-> [email |-> fromEmail],
                               rcptTo |-> mapAddresses(email.to)]]],
             onSuccessUpdateEmail |->
                [target |-> "#submission",
                 mailboxIds |-> {sent.id},
                 keywords |-> {}]],
            "submitEmail") >>]

\* contacts-calendar.ts getContacts
getContactsRequest(s, limit) ==
    [using |-> UsingContacts,
     methodCalls |-> <<
        MethodCall("Contact/query",
            [accountId |-> s.accountId, limit |-> limit],
            "query"),
        MethodCall("Contact/get",
            [accountId |-> s.accountId,
             ref_ids |-> BackReference("query", "Contact/query", "/ids"),
             properties |-> <<"id", "name", "emails", "phones", "addresses",
                              "notes">>],
            "contacts") >>]

(***************************************************************************)
(* The getContacts of the contacts-calendar.ts that README.md holds: the   *)
(* same batch under the IETF contacts capability, and an AddressBook/get   *)
(* batch its catch block falls back to.                                    *)
(***************************************************************************)
UsingContactsIetf == <<"urn:ietf:params:jmap:core", "urn:ietf:params:jmap:contacts">>

README_getContacts == "README.md getContacts"

README_getContactsRequest(s, limit) ==
    [getContactsRequest(s, limit) EXCEPT !.using = UsingContactsIetf]

README_getContactsFallbackRequest(s) ==
    [using |-> UsingContactsIetf,
     methodCalls |-> <<MethodCall("AddressBook/get", [accountId |-> s.accountId],
                                  "addressbooks")>>]

UsingCalendars == <<"urn:ietf:params:jmap:core", "urn:ietf:params:jmap:calendars">>

getContactByIdRequest(s, id) ==
    [using |-> UsingContacts,
     methodCalls |-> <<MethodCall("Contact/get",
                                  [accountId |-> s.accountId, ids |-> <<id>>],
                                  "contact")>>]

getCalendarEventByIdRequest(s, id) ==
    [using |-> UsingCalendars,
     methodCalls |-> <<MethodCall("CalendarEvent/get",
                                  [accountId |-> s.accountId, ids |-> <<id>>],
                                  "event")>>]

getEmailByIdRequest(s, id) ==
    [using |-> UsingMail,
     methodCalls |-> <<
        MethodCall("Email/get",
            [accountId |-> s.accountId, ids |-> <<id>>,
             properties |-> <<"id", "subject", "from", "to", "cc", "bcc",
                              "receivedAt", "textBody", "htmlBody", "attachments">>],
            "email") >>]

getEmailAttachmentsRequest(s, emailId) ==
    [using |-> UsingMail,
     methodCalls |-> <<
        MethodCall("Email/get",
            [accountId |-> s.accountId, ids |-> <<emailId>>,
             properties |-> <<"attachments">>],
            "getAttachments") >>]

\* an object property that is set only under a condition
Field(present, name, value) == IF present THEN name :> value ELSE <<>>

AdvancedLimitDefault == 50
AdvancedLimitCap == 100

\* the filter object of advancedSearch; an absent string is "", an absent
\* boolean is Undefined, an absent limit is 0
advancedSearchFilter(filters) ==
    Field(filters.query # "", "text", filters.query)
      @@ Field(filters.from # "", "from", filters.from)
      @@ Field(filters.to # "", "to", filters.to)
      @@ Field(filters.subject # "", "subject", filters.subject)
      @@ Field(~filters.hasAttachment.undef, "hasAttachment",
               IF filters.hasAttachment.undef THEN FALSE ELSE filters.hasAttachment.v)
      @@ Field(~filters.isUnread.undef /\ ~filters.isUnread.v, "hasKeyword", "$seen")
      @@ Field(filters.mailboxId # 0, "inMailbox", filters.mailboxId)
      @@ Field(filters.after # "", "after", filters.after)
      @@ Field(filters.before # "", "before", filters.before)
      @@ Field(~filters.isUnread.undef /\ filters.isUnread.v, "notKeyword", "$seen")

advancedSearchRequest(s, filters) ==
    [using |-> UsingMail,
     methodCalls |-> <<
        MethodCall("Email/query",
            [accountId |-> s.accountId,
             filter |-> advancedSearchFilter(filters),
             sort |-> <<[property |-> "receivedAt", isAscending |-> FALSE]>>,
             limit |-> Min(IF filters.limit = 0 THEN AdvancedLimitDefault
                           ELSE filters.limit, AdvancedLimitCap)],
            "query"),
        MethodCall("Email/get",
            [accountId |-> s.accountId,
             ref_ids |-> BackReference("query", "Email/query", "/ids"),
             properties |-> <<"id", "subject", "from", "to", "cc", "receivedAt",
                              "preview", "hasAttachment", "keywords", "threadId">>],
            "emails") >>]

getThreadRequest(s, threadId) ==
    [using |-> UsingMail,
     methodCalls |-> <<
        MethodCall("Email/query",
            [accountId |-> s.accountId,
             filter |-> [inThread |-> threadId],
             sort |-> <<[property |-> "receivedAt", isAscending |-> TRUE]>>],
            "query"),
        MethodCall("Email/get",
            [accountId |-> s.accountId,
             ref_ids |-> BackReference("query", "Email/query", "/ids"),
             properties |-> <<"id", "subject", "from", "to", "cc", "receivedAt",
                              "preview", "hasAttachment", "keywords", "threadId">>],
            "emails") >>]

getMailboxStatsRequest(s, mailboxId) ==
    [using |-> UsingMail,
     methodCalls |-> <<
        MethodCall("Mailbox/get",
            [accountId |-> s.accountId, ids |-> <<mailboxId>>,
             properties |-> <<"id", "name", "role", "totalEmails", "unreadEmails",
                              "totalThreads", "unreadThreads">>],
            "mailbox") >>]

searchContactsRequest(s, query, limit) ==
    [using |-> UsingContacts,
     methodCalls |-> <<
        MethodCall("Contact/query",
            [accountId |-> s.accountId, filter |-> [text |-> query],
             limit |-> limit],
            "query"),
        MethodCall("Contact/get",
            [accountId |-> s.accountId,
             ref_ids |-> BackReference("query", "Contact/query", "/ids"),
             properties |-> <<"id", "name", "emails", "phones", "addresses",
                              "notes">>],
            "contacts") >>]

getCalendarsRequest(s) ==
    [using |-> UsingCalendars,
     methodCalls |-> <<MethodCall("Calendar/get", [accountId |-> s.accountId],
                                  "calendars")>>]

getCalendarEventsRequest(s, calendarId, limit) ==
    [using |-> UsingCalendars,
     methodCalls |-> <<
        MethodCall("CalendarEvent/query",
            [accountId |-> s.accountId,
             filter |-> IF calendarId # 0 THEN [inCalendar |-> calendarId] ELSE <<>>,
             sort |-> <<[property |-> "start", isAscending |-> TRUE]>>,
             limit |-> limit],
            "query"),
        MethodCall("CalendarEvent/get",
            [accountId |-> s.accountId,
             ref_ids |-> BackReference("query", "CalendarEvent/query", "/ids"),
             properties |-> <<"id", "title", "description", "start", "end",
                              "location", "participants">>],
            "events") >>]

\* description || '', location || '', participants || []
createCalendarEventRequest(s, event) ==
    [using |-> UsingCalendars,
     methodCalls |-> <<
        MethodCall("CalendarEvent/set",
            [accountId |-> s.accountId,
             create |-> [newEvent |->
                [calendarId |-> event.calendarId,
                 title |-> event.title,
                 description |-> event.description,
                 start |-> event.start,
                 end |-> event.end,
                 location |-> event.location,
                 participants |-> event.participants]]],
            "createEvent") >>]

(***************************************************************************)
(* JavaScript values.  A possibly-undefined value is Undefined or Def(v).  *)
(* An Error is [name, text, ids, reasons, statusText, status]: `text` is   *)
(* the literal part of the message, the other fields are what the          *)
(* interpolated part of the message contains.                              *)
(***************************************************************************)
Undefined == [undef |-> TRUE]
Def(v) == [undef |-> FALSE, v |-> v]

\* o.f
Prop(o, f) == IF f \in DOMAIN o THEN Def(o[f]) ELSE Undefined

NoError ==
    [name |-> "", text |-> "", ids |-> {}, reasons |-> {}, statusText |-> "",
     status |-> 0, about |-> <<>>]

\* new Error(text)
Error(text) == [NoError EXCEPT !.name = "Error", !.text = text]

\* reading a property of undefined
TypeError == [NoError EXCEPT !.name = "TypeError"]

\* node-fetch rejects: the exchange itself failed
FetchError == [NoError EXCEPT !.name = "FetchError"]

\* response.json() rejects: the body is not JSON
InvalidJson == [NoError EXCEPT !.name = "InvalidJson"]

\* `${text}${JSON.stringify(setError)}`: the SetError's own fields, not its key
ErrorWithSetError(text, setError) ==
    [Error(text) EXCEPT !.reasons = {setError.type}]

\* `${text}${JSON.stringify(notUpdated)}`: every key with its SetError
ErrorWithNotUpdated(text, notUpdated) ==
    [Error(text) EXCEPT !.ids = DOMAIN notUpdated,
                        !.reasons = {notUpdated[e].type : e \in DOMAIN notUpdated}]

\* `${text}${response.statusText}`
ErrorWithStatusText(text, reply) ==
    [Error(text) EXCEPT !.statusText = reply.statusText]

\* `${text}${error.message}`: the message of the error it is raised about
ErrorAbout(text, error) == [Error(text) EXCEPT !.about = <<error>>]

NoOutcome == [kind |-> "none", value |-> <<>>, error |-> NoError]
Return(v) == [kind |-> "return", value |-> v, error |-> NoError]
Throw(e) == [kind |-> "throw", value |-> <<>>, error |-> e]
Void == <<>>

(***************************************************************************)
(* What each operation does with the parsed batch response.  `body` is     *)
(* response.methodResponses, a sequence of [name, payload, label]; the     *)
(* source's methodResponses[k][1] is body[k + 1].payload, and reading it   *)
(* past the end of the array is a TypeError.                               *)
(***************************************************************************)
\* response.methodResponses[0][1].list
firstList(body) ==
    IF Len(body) < 1 THEN Throw(TypeError)
    ELSE Return(Prop(body[1].payload, "list"))

\* a reader that puts the fetched records into the order of the query's ids
secondListInQueryOrder(body) ==
    IF Len(body) < 2 THEN Throw(TypeError)
    ELSE LET list == Prop(body[2].payload, "list")
             ids == Prop(body[1].payload, "ids")
         IN IF list.undef \/ ids.undef THEN Return(list)
            ELSE IF {list.v[k].id : k \in DOMAIN list.v}
                       # {ids.v[k] : k \in DOMAIN ids.v}
                    \/ Len(list.v) # Len(ids.v)
            THEN Return(list)
            ELSE Return(Def([k \in DOMAIN ids.v |->
                               list.v[CHOOSE n \in DOMAIN list.v :
                                          list.v[n].id = ids.v[k]]]))

\* response.methodResponses[1][1].list
secondList(body) ==
    IF Len(body) < 2 THEN Throw(TypeError)
    ELSE Return(Prop(body[2].payload, "list"))

getMailboxesResult(body) == firstList(body)

getIdentitiesResult(body) == firstList(body)

getEmailsResult(body) == secondList(body)

searchEmailsResult(body) == secondList(body)

getRecentEmailsResult(body) == secondList(body)

getContactsResult(body) == secondList(body)

advancedSearchResult(body) == secondList(body)

getThreadResult(body) == secondList(body)

searchContactsResult(body) == secondList(body)

getCalendarEventsResult(body) == secondList(body)

getCalendarsResult(body) == firstList(body)

\* response.methodResponses[0][1].list[0]
firstRecord(body) ==
    IF Len(body) < 1 THEN Throw(TypeError)
    ELSE LET list == Prop(body[1].payload, "list") IN
         IF list.undef THEN Throw(TypeError)
         ELSE IF list.v = <<>> THEN Return(Undefined)
         ELSE Return(Def(list.v[1]))

getEmailByIdResult(body) == firstRecord(body)

getContactByIdResult(body) == firstRecord(body)

getCalendarEventByIdResult(body) == firstRecord(body)

\* email?.attachments || []
getEmailAttachmentsResult(body) ==
    LET email == firstRecord(body) IN
    IF email.kind = "throw" THEN email
    ELSE IF email.value.undef THEN Return(Def(<<>>))
    ELSE LET attachments == Prop(email.value.v, "attachments") IN
         Return(Def(IF attachments.undef THEN <<>> ELSE attachments.v))

\* mb.totalEmails || 0
Count(mb, field) == IF field \in DOMAIN mb THEN mb[field] ELSE 0

\* getMailboxStats without an id: mailboxes.map(mb => ({ ... }))
allMailboxStats(body) ==
    LET got == getMailboxesResult(body) IN
    IF got.kind = "throw" THEN got
    ELSE IF got.value.undef THEN Throw(TypeError)
    ELSE LET mailboxes == got.value.v IN
         Return(Def([k \in DOMAIN mailboxes |->
                        [id |-> mailboxes[k].id,
                         name |-> mailboxes[k].name,
                         role |-> mailboxes[k].role,
                         totalEmails |-> Count(mailboxes[k], "totalEmails"),
                         unreadEmails |-> Count(mailboxes[k], "unreadEmails"),
                         totalThreads |-> Count(mailboxes[k], "totalThreads"),
                         unreadThreads |-> Count(mailboxes[k], "unreadThreads")]]))

getMailboxStatsResult(body, mailboxId) ==
    IF mailboxId # 0 THEN firstRecord(body) ELSE allMailboxStats(body)

\* getAccountSummary once both lists are fetched: reduce, length and map
getAccountSummaryResult(s, mailboxes, body) ==
    LET got == getIdentitiesResult(body) IN
    IF got.kind = "throw" THEN got
    ELSE IF mailboxes.undef \/ got.value.undef THEN Throw(TypeError)
    ELSE Return(Def([accountId |-> s.accountId,
                     mailboxCount |-> Len(mailboxes.v),
                     identityCount |-> Len(got.value.v)]))

\* response.methodResponses[0][1].created.newEvent.id
createCalendarEventResult(body) ==
    IF Len(body) < 1 THEN Throw(TypeError)
    ELSE LET created == Prop(body[1].payload, "created") IN
         IF created.undef THEN Throw(TypeError)
         ELSE IF "newEvent" \notin DOMAIN created.v THEN Throw(TypeError)
         ELSE Return(Def(created.v["newEvent"].id))

\* identities.find(id => id.mayDelete === false) || identities[0]
getDefaultIdentity(identities) ==
    OrElse(find({k \in DOMAIN identities : identities[k].mayDelete = FALSE}),
           IF Len(identities) >= 1 THEN 1 ELSE 0)

\* result.notUpdated && result.notUpdated[emailId]
notUpdatedHas(result, emailId) ==
    /\ "notUpdated" \in DOMAIN result
    /\ emailId \in DOMAIN result.notUpdated

\* the check that ends markEmailRead, deleteEmail and moveEmail
singleSetResult(body, emailId, text) ==
    IF Len(body) < 1 THEN Throw(TypeError)
    ELSE LET result == body[1].payload IN
         IF notUpdatedHas(result, emailId)
         THEN Throw(ErrorWithSetError(text, result.notUpdated[emailId]))
         ELSE Return(Void)

markEmailReadResult(body, emailId, read) ==
    singleSetResult(body, emailId,
        IF read THEN "Failed to mark email as read: "
        ELSE "Failed to mark email as unread: ")

deleteEmailResult(body, emailId) ==
    singleSetResult(body, emailId, "Failed to delete email: ")

moveEmailResult(body, emailId) ==
    singleSetResult(body, emailId, "Failed to move email: ")

\* a check of result.notUpdated alone, which an empty object passes
notUpdatedTruthy(result) == "notUpdated" \in DOMAIN result

\* result.notUpdated && Object.keys(result.notUpdated).length > 0
notUpdatedNonEmpty(result) ==
    /\ "notUpdated" \in DOMAIN result
    /\ DOMAIN result.notUpdated # {}

\* the check that ends bulkMarkRead, bulkMove and bulkDelete
bulkSetResult(body, text) ==
    IF Len(body) < 1 THEN Throw(TypeError)
    ELSE LET result == body[1].payload IN
         IF notUpdatedNonEmpty(result)
         THEN Throw(ErrorWithNotUpdated(text, result.notUpdated))
         ELSE Return(Void)

bulkMarkReadResult(body) == bulkSetResult(body, "Failed to update some emails: ")

bulkMoveResult(body) == bulkSetResult(body, "Failed to move some emails: ")

bulkDeleteResult(body) == bulkSetResult(body, "Failed to delete some emails: ")

\* result.notCreated && result.notCreated[creationId]
notCreatedHas(result, creationId) ==
    /\ "notCreated" \in DOMAIN result
    /\ creationId \in DOMAIN result.notCreated

\* submissionResult.created?.submission?.id || 'unknown'
submissionId(result) ==
    IF /\ "created" \in DOMAIN result
       /\ "submission" \in DOMAIN result.created
    THEN result.created["submission"].id
    ELSE "unknown"

\* a sendEmail that returns after the create step's check alone
sendEmailResultCreateOnly(body) ==
    IF Len(body) < 1 THEN Throw(TypeError)
    ELSE LET emailResult == body[1].payload IN
         IF notCreatedHas(emailResult, "draft")
         THEN Throw(ErrorWithSetError("Failed to create email: ",
                                      emailResult.notCreated["draft"]))
         ELSE IF Len(body) < 2 THEN Throw(TypeError)
         ELSE Return(submissionId(body[2].payload))

sendEmailResult(body) ==
    IF Len(body) < 1 THEN Throw(TypeError)
    ELSE LET emailResult == body[1].payload IN
         IF notCreatedHas(emailResult, "draft")
         THEN Throw(ErrorWithSetError("Failed to create email: ",
                                      emailResult.notCreated["draft"]))
         ELSE IF Len(body) < 2 THEN Throw(TypeError)
         ELSE LET submissionResult == body[2].payload IN
              IF notCreatedHas(submissionResult, "submission")
              THEN Throw(ErrorWithSetError("Failed to submit email: ",
                                           submissionResult.notCreated["submission"]))
              ELSE Return(submissionId(submissionResult))

(***************************************************************************)
(* The operations as programs.  After its own `await this.getSession()`    *)
(* an operation either sends a batch (Send) or ends (Finish); Begin is the *)
(* code up to the first makeRequest, Resume the code that follows the      *)
(* k-th makeRequest of the operation.                                      *)
(***************************************************************************)
NoRequest == [using |-> <<>>, methodCalls |-> <<>>]
NoLocals == [none |-> TRUE]
NoArgs == [none |-> TRUE]

Send(request, locals) ==
    [do |-> "send", request |-> request, locals |-> locals, outcome |-> NoOutcome]

Finish(outcome, locals) ==
    [do |-> "finish", request |-> NoRequest, locals |-> locals, outcome |-> outcome]

\* trash lookup of deleteEmail and bulkDelete, then the Email/set batch
deleteEmailLookup(s, args, body) ==
    LET got == getMailboxesResult(body) IN
    IF got.kind = "throw" THEN Finish(got, NoLocals)
    ELSE IF got.value.undef THEN Finish(Throw(TypeError), NoLocals)
    ELSE LET mailboxes == got.value.v
             trash == trashMailbox(mailboxes)
             locals == [mailboxes |-> mailboxes, selected |-> trash]
         IN IF trash = 0
            THEN Finish(Throw(Error("Could not find Trash mailbox")), locals)
            ELSE Send(deleteEmailRequest(s, args.emailId, mailboxes[trash]), locals)

bulkDeleteLookup(s, args, body) ==
    LET got == getMailboxesResult(body) IN
    IF got.kind = "throw" THEN Finish(got, NoLocals)
    ELSE IF got.value.undef THEN Finish(Throw(TypeError), NoLocals)
    ELSE LET mailboxes == got.value.v
             trash == trashMailbox(mailboxes)
             locals == [mailboxes |-> mailboxes, selected |-> trash]
         IN IF trash = 0
            THEN Finish(Throw(Error("Could not find Trash mailbox")), locals)
            ELSE Send(bulkDeleteRequest(s, args.emailIds, mailboxes[trash]), locals)

getRecentEmailsLookup(s, args, body) ==
    LET got == getMailboxesResult(body) IN
    IF got.kind = "throw" THEN Finish(got, NoLocals)
    ELSE IF got.value.undef THEN Finish(Throw(TypeError), NoLocals)
    ELSE LET mailboxes == got.value.v
             target == targetMailbox(mailboxes, args.mailboxName)
             locals == [mailboxes |-> mailboxes, selected |-> target]
         IN IF target = 0
            THEN Finish(Throw(Error("Could not find mailbox: ")), locals)
            ELSE Send(getRecentEmailsRequest(s, args.limit, mailboxes[target]), locals)

\* sendEmail: getDefaultIdentity(), then the mailbox list is fetched
sendEmailIdentity(s, args, body) ==
    LET got == getIdentitiesResult(body) IN
    IF got.kind = "throw" THEN Finish(got, NoLocals)
    ELSE IF got.value.undef THEN Finish(Throw(TypeError), NoLocals)
    ELSE LET identities == got.value.v
             identity == getDefaultIdentity(identities)
         IN IF identity = 0
            THEN Finish(Throw(Error("No sending identity found")), NoLocals)
            ELSE Send(getMailboxesRequest(s),
                      [identities |-> identities,    \* history: the list it chose from
                       identity |-> identities[identity],
                       fromEmail |-> IF args.email.from # "" THEN args.email.from
                                     ELSE identities[identity].email])

\* sendEmail: drafts and sent lookup, the body check, then the create/submit batch
sendEmailLookup(s, args, locals, body) ==
    LET got == getMailboxesResult(body) IN
    IF got.kind = "throw" THEN Finish(got, locals)
    ELSE IF got.value.undef THEN Finish(Throw(TypeError), locals)
    ELSE LET mailboxes == got.value.v
             drafts == draftsMailbox(mailboxes)
             sent == sentMailbox(mailboxes)
             found == [identities |-> locals.identities,
                       identity |-> locals.identity, fromEmail |-> locals.fromEmail,
                       mailboxes |-> mailboxes, drafts |-> drafts, sent |-> sent]
         IN IF drafts = 0
            THEN Finish(Throw(Error("Could not find Drafts mailbox to save email")), found)
            ELSE IF sent = 0
            THEN Finish(Throw(Error(
                    "Could not find Sent mailbox to move email after sending")), found)
            ELSE IF args.email.textBody = "" /\ args.email.htmlBody = ""
            THEN Finish(Throw(Error("Either textBody or htmlBody must be provided")),
                        found)
            ELSE Send(sendEmailRequest(s, args.email, locals.identity, locals.fromEmail,
                         IF args.email.mailboxId # 0 THEN args.email.mailboxId
                         ELSE mailboxes[drafts].id,
                         mailboxes[sent]),
                      found)

\* getUserEmail after getDefaultIdentity(): identity?.email || 'user@example.com'
getUserEmailResult(body) ==
    LET got == getIdentitiesResult(body) IN
    IF got.kind = "throw" THEN got
    ELSE IF got.value.undef THEN Throw(TypeError)
    ELSE LET identities == got.value.v
             identity == getDefaultIdentity(identities)
         IN IF identity = 0 \/ identities[identity].email = ""
            THEN Return(Def("user@example.com"))
            ELSE Return(Def(identities[identity].email))

\* try { ... } catch (error) { return 'user@example.com'; } of getUserEmail
caught(op, outcome) ==
    IF op = "getUserEmail" /\ outcome.kind = "throw"
    THEN Return(Def("user@example.com"))
    ELSE outcome

\* README.md getContacts, inside its try: the list, or what reading it throws
README_getContactsTry(s, locals, body) ==
    LET got == secondList(body) IN
    IF got.kind = "throw"
    THEN Send(README_getContactsFallbackRequest(s), [error |-> got.error])
    ELSE Finish(got, locals)

\* README.md getContacts, inside the try of its catch block:
\* fallbackResponse.methodResponses[0][1].list || []
README_getContactsFallback(locals, body) ==
    LET got == firstList(body) IN
    IF got.kind = "throw"
    THEN Finish(Throw(ErrorAbout("Contacts not supported or accessible: ",
                                 locals.error)), locals)
    ELSE Finish(Return(Def(IF got.value.undef THEN <<>> ELSE got.value.v)), locals)

\* a catch block that reports the failure of the fallback itself
CatchFallbackError(op, s, k, locals, e) ==
    IF k = 1 THEN Send(README_getContactsFallbackRequest(s), [error |-> e])
    ELSE Finish(Throw(ErrorAbout("Contacts not supported or accessible: ", e)), locals)

\* the methods that await makeRequest inside a try with a catch block
Catches == {README_getContacts}

\* the catch block that receives what makeRequest threw in invocation k
Catch(op, s, k, locals, e) ==
    IF k = 1 THEN Send(README_getContactsFallbackRequest(s), [error |-> e])
    ELSE Finish(Throw(ErrorAbout("Contacts not supported or accessible: ",
                                 locals.error)), locals)

\* getAccountSummary: getMailboxes(), then getIdentities()
getAccountSummaryMailboxes(s, body) ==
    LET got == getMailboxesResult(body) IN
    IF got.kind = "throw" THEN Finish(got, NoLocals)
    ELSE Send(getIdentitiesRequest(s), [summaryMailboxes |-> got.value])

Begin(op, args, s) ==
    CASE op = "getSession" -> Finish(Return(s), NoLocals)
      [] op = "getIdentities" -> Send(getIdentitiesRequest(s), NoLocals)
      [] op = "getEmailById" -> Send(getEmailByIdRequest(s, args.emailId), NoLocals)
      [] op = "getEmailAttachments" ->
            Send(getEmailAttachmentsRequest(s, args.emailId), NoLocals)
      [] op = "advancedSearch" -> Send(advancedSearchRequest(s, args.filters), NoLocals)
      [] op = "getThread" -> Send(getThreadRequest(s, args.threadId), NoLocals)
      [] op = "getMailboxStats" ->
            Send(IF args.mailboxId # 0 THEN getMailboxStatsRequest(s, args.mailboxId)
                 ELSE getMailboxesRequest(s), NoLocals)
      [] op = "getAccountSummary" -> Send(getMailboxesRequest(s), NoLocals)
      [] op = "getContactById" ->
            Send(getContactByIdRequest(s, args.contactId), NoLocals)
      [] op = "searchContacts" ->
            Send(searchContactsRequest(s, args.query, args.limit), NoLocals)
      [] op = "getCalendars" -> Send(getCalendarsRequest(s), NoLocals)
      [] op = "getCalendarEvents" ->
            Send(getCalendarEventsRequest(s, args.calendarId, args.limit), NoLocals)
      [] op = "getCalendarEventById" ->
            Send(getCalendarEventByIdRequest(s, args.eventId), NoLocals)
      [] op = "createCalendarEvent" ->
            Send(createCalendarEventRequest(s, args.event), NoLocals)
      [] op = "getUserEmail" -> Send(getIdentitiesRequest(s), NoLocals)
      [] op = "getMailboxes" -> Send(getMailboxesRequest(s), NoLocals)
      [] op = "getEmails" ->
            Send(getEmailsRequest(s, args.mailboxId, args.limit), NoLocals)
      [] op = "search_emails" ->
            Send(searchEmailsRequest(s, args.query, args.limit), NoLocals)
      [] op = "markEmailRead" ->
            Send(markEmailReadRequest(s, args.emailId, args.read), NoLocals)
      [] op = "moveEmail" ->
            Send(moveEmailRequest(s, args.emailId, args.targetMailboxId), NoLocals)
      [] op = "bulkMarkRead" ->
            Send(bulkMarkReadRequest(s, args.emailIds, args.read), NoLocals)
      [] op = "bulkMove" ->
            Send(bulkMoveRequest(s, args.emailIds, args.targetMailboxId), NoLocals)
      [] op \in {"deleteEmail", "bulkDelete", "getRecentEmails"} ->
            Send(getMailboxesRequest(s), NoLocals)
      [] op = "sendEmail" -> Send(getIdentitiesRequest(s), NoLocals)
      [] op = "getContacts" -> Send(getContactsRequest(s, args.limit), NoLocals)
      [] op = README_getContacts ->
            Send(README_getContactsRequest(s, args.limit), NoLocals)

Resume(op, args, s, k, locals, body) ==
    CASE op = "getMailboxes" -> Finish(getMailboxesResult(body), locals)
      [] op = README_getContacts /\ k = 1 -> README_getContactsTry(s, locals, body)
      [] op = README_getContacts /\ k = 2 -> README_getContactsFallback(locals, body)
      [] op = "getIdentities" -> Finish(getIdentitiesResult(body), locals)
      [] op = "getEmailById" -> Finish(getEmailByIdResult(body), locals)
      [] op = "getEmailAttachments" ->
            Finish(getEmailAttachmentsResult(body), locals)
      [] op = "advancedSearch" -> Finish(advancedSearchResult(body), locals)
      [] op = "getThread" -> Finish(getThreadResult(body), locals)
      [] op = "getMailboxStats" ->
            Finish(getMailboxStatsResult(body, args.mailboxId), locals)
      [] op = "getAccountSummary" /\ k = 1 -> getAccountSummaryMailboxes(s, body)
      [] op = "getAccountSummary" /\ k = 2 ->
            Finish(getAccountSummaryResult(s, locals.summaryMailboxes, body), locals)
      [] op = "getContactById" -> Finish(getContactByIdResult(body), locals)
      [] op = "searchContacts" -> Finish(searchContactsResult(body), locals)
      [] op = "getCalendars" -> Finish(getCalendarsResult(body), locals)
      [] op = "getCalendarEvents" -> Finish(getCalendarEventsResult(body), locals)
      [] op = "getCalendarEventById" ->
            Finish(getCalendarEventByIdResult(body), locals)
      [] op = "createCalendarEvent" ->
            Finish(createCalendarEventResult(body), locals)
      [] op = "getUserEmail" -> Finish(getUserEmailResult(body), locals)
      [] op = "getEmails" -> Finish(getEmailsResult(body), locals)
      [] op = "search_emails" -> Finish(searchEmailsResult(body), locals)
      [] op = "getContacts" -> Finish(getContactsResult(body), locals)
      [] op = "markEmailRead" ->
            Finish(markEmailReadResult(body, args.emailId, args.read), locals)
      [] op = "moveEmail" -> Finish(moveEmailResult(body, args.emailId), locals)
      [] op = "bulkMarkRead" -> Finish(bulkMarkReadResult(body), locals)
      [] op = "bulkMove" -> Finish(bulkMoveResult(body), locals)
      [] op = "deleteEmail" /\ k = 1 -> deleteEmailLookup(s, args, body)
      [] op = "deleteEmail" /\ k = 2 ->
            Finish(deleteEmailResult(body, args.emailId), locals)
      [] op = "bulkDelete" /\ k = 1 -> bulkDeleteLookup(s, args, body)
      [] op = "bulkDelete" /\ k = 2 -> Finish(bulkDeleteResult(body), locals)
      [] op = "getRecentEmails" /\ k = 1 -> getRecentEmailsLookup(s, args, body)
      [] op = "getRecentEmails" /\ k = 2 ->
            Finish(getRecentEmailsResult(body), locals)
      [] op = "sendEmail" /\ k = 1 -> sendEmailIdentity(s, args, body)
      [] op = "sendEmail" /\ k = 2 -> sendEmailLookup(s, args, locals, body)
      [] op = "sendEmail" /\ k = 3 -> Finish(sendEmailResult(body), locals)

(***************************************************************************)
(* Network replies.  An exchange fails outright (fetch rejects), or        *)
(* answers with a status; a 2xx answer carries a JSON body or one that     *)
(* response.json() cannot parse.                                           *)
(***************************************************************************)
NoReply ==
    [kind |-> "none", ok |-> FALSE, status |-> 0, statusText |-> "", body |-> <<>>]

NetworkFailure == [NoReply EXCEPT !.kind = "network_error"]

HttpError(status, statusText) ==
    [NoReply EXCEPT !.kind = "http", !.status = status, !.statusText = statusText]

BadJson ==
    [NoReply EXCEPT !.kind = "bad_json", !.ok = TRUE, !.status = 200,
                    !.statusText = "OK"]

Ok(body) ==
    [kind |-> "http", ok |-> TRUE, status |-> 200, statusText |-> "OK",
     body |-> body]

\* the exchange did not produce a parsed 2xx body
replyFailed(reply) == reply.kind # "http" \/ ~reply.ok

\* what the awaiting code throws for such a reply
replyError(reply, text) ==
    CASE reply.kind = "network_error" -> FetchError
      [] reply.kind = "bad_json" -> InvalidJson
      [] OTHER -> ErrorWithStatusText(text, reply)

(***************************************************************************)
(* FastmailAuth and the client objects of index.ts.  A string built by a   *)
(* template literal is the sequence of its parts.                          *)
(***************************************************************************)
DefaultBaseUrl == "https://api.fastmail.com"

NoAuth == [apiToken |-> "", baseUrl |-> ""]

\* new FastmailAuth(config)
FastmailAuth(config) ==
    [apiToken |-> config.apiToken,
     baseUrl |-> IF config.baseUrl = "" THEN DefaultBaseUrl ELSE config.baseUrl]

\* headers that leave the bearer token out
contentTypeHeader(auth) == "Content-Type" :> "application/json"

getAuthHeaders(auth) ==
    ("Authorization" :> <<"Bearer ", auth.apiToken>>)
        @@ ("Content-Type" :> "application/json")

getSessionUrl(auth) == <<auth.baseUrl, "/jmap/session">>

\* let jmapClient: JmapClient | null = null
null == [constructed |-> FALSE, auth |-> NoAuth]

\* initializeClient() and initializeContactsCalendarClient(): the client
\* kept from an earlier call, or a new one over process.env
initializeClient(client, env) ==
    IF client.constructed THEN client
    ELSE [constructed |-> TRUE, auth |-> FastmailAuth(env)]

\* one fetch(url, { method, headers, body }); the body of a GET is empty
Exchange(method, url, headers, body) ==
    [method |-> method, url |-> url, headers |-> headers, body |-> body]

(***************************************************************************)
(* The session cache and the call records.                                 *)
(***************************************************************************)
Clients == {"mail", "contacts"}

\* private session: JmapSession | null = null
NoSession ==
    [cached |-> FALSE, apiUrl |-> "", accountId |-> "", capabilities |-> {}]

\* the object getSession builds from the bootstrap body
sessionFrom(sessionData) ==
    [cached |-> TRUE,
     apiUrl |-> sessionData.apiUrl,
     accountId |-> sessionData.accounts[1],
     capabilities |-> sessionData.capabilities]

\* a getSession that assigns this.session before it looks at the response
cacheSessionUnchecked(cache, reply) ==
    IF replyFailed(reply) THEN [NoSession EXCEPT !.cached = TRUE]
    ELSE sessionFrom(reply.body)

\* this.session after getSession's fetch: assigned once the response was ok
\* and parsed, left as it was when getSession throws
cacheSession(cache, reply) ==
    IF replyFailed(reply) THEN cache ELSE sessionFrom(reply.body)

\* one makeRequest invocation: was the session cached on entry, the exchanges
\* it has performed so far, and whether its bootstrap GET failed
NoInvocation == [cached |-> FALSE, gets |-> 0, posts |-> 0, bootFailed |-> FALSE]

IdleCall ==
    [pc |-> "idle",            \* idle, awaitSession, awaitBatch, done
     via |-> "",               \* tool: through the tool handler; method: direct
     tool |-> "",
     op |-> "",                \* the public method that runs
     client |-> "mail",        \* the client object it runs on
     auth |-> NoAuth,          \* its `this.auth`
     sent |-> <<>>,            \* history: the exchanges this call started
     given |-> NoArgs,         \* history: request.params.arguments of a tool call
     args |-> NoArgs,
     sess |-> NoSession,       \* the method's `const session`
     ret |-> "",               \* who awaits getSession: op or makeRequest
     k |-> 0,                  \* makeRequest invocations started by the method
     locals |-> NoLocals,
     request |-> NoRequest,    \* the batch of the current makeRequest
     url |-> "",               \* where it was POSTed
     reply |-> NoReply,        \* the reply to the last POST
     answered |-> NoRequest,   \* history: the batch that reply answers
     outcome |-> NoOutcome,
     failed |-> FALSE,         \* history: an exchange of this call has failed
     completed |-> 0,          \* history: exchanges of this call that have ended
     gets |-> 0,               \* history: bootstrap GETs this call sent
     posts |-> 0,              \* history: batch POSTs this call sent
     cur |-> NoInvocation,     \* history: the makeRequest invocation in progress
     log |-> <<>>]             \* history: the completed makeRequest invocations

\* a makeRequest that sends its batch a second time
postTwice(c, sess) ==
    [c EXCEPT !.pc = "awaitBatch",
              !.url = sess.apiUrl,
              !.sent = Append(@, Exchange("POST", sess.apiUrl, getAuthHeaders(c.auth),
                                          c.request)),
              !.posts = @ + 2,
              !.cur = [@ EXCEPT !.posts = @ + 2]]

\* a makeRequest that starts its fetch twice without awaiting the first
postAlongside(c, sess) ==
    LET exchange == Exchange("POST", sess.apiUrl, getAuthHeaders(c.auth), c.request)
    IN [c EXCEPT !.pc = "awaitBatch",
                 !.url = sess.apiUrl,
                 !.sent = Append(Append(@, exchange), exchange),
                 !.posts = @ + 1,
                 !.cur = [@ EXCEPT !.posts = @ + 1]]

\* fetch(session.apiUrl, { method: 'POST', ... })
post(c, sess) ==
    [c EXCEPT !.pc = "awaitBatch",
              !.url = sess.apiUrl,
              !.sent = Append(@, Exchange("POST", sess.apiUrl, getAuthHeaders(c.auth),
                                          c.request)),
              !.posts = @ + 1,
              !.cur = [@ EXCEPT !.posts = @ + 1]]

\* makeRequest up to its first fetch: getSession() returns the cached
\* session, or sends the bootstrap GET
makeRequest(c, request, sess) ==
    LET entered == [c EXCEPT !.request = request,
                             !.cur = [cached |-> sess.cached, gets |-> 0,
                                      posts |-> 0, bootFailed |-> FALSE]]
    IN IF sess.cached
       THEN post(entered, sess)
       ELSE [entered EXCEPT !.pc = "awaitSession",
                            !.ret = "makeRequest",
                            !.gets = @ + 1,
                            !.sent = Append(@, Exchange("GET", getSessionUrl(c.auth),
                                                        getAuthHeaders(c.auth),
                                                        NoRequest)),
                            !.cur = [@ EXCEPT !.gets = @ + 1]]

\* a method whose batch depends on what the call did before it was built:
\* the call that fetched the session itself adds a capability
ProceedStateful(c, step, sess) ==
    IF step.do = "finish"
    THEN [c EXCEPT !.pc = "done", !.outcome = caught(c.op, step.outcome),
                   !.locals = step.locals]
    ELSE makeRequest([c EXCEPT !.k = @ + 1, !.locals = step.locals],
                     IF c.gets > 0
                     THEN [step.request EXCEPT !.using = Append(@, "urn:ietf:params:jmap:core")]
                     ELSE step.request, sess)

\* the method goes on after a step of its program
Proceed(c, step, sess) ==
    IF step.do = "finish"
    THEN [c EXCEPT !.pc = "done", !.outcome = caught(c.op, step.outcome),
                   !.locals = step.locals]
    ELSE makeRequest([c EXCEPT !.k = @ + 1, !.locals = step.locals],
                     step.request, sess)

\* a public method up to its first fetch: its own getSession(), which
\* returns the cached session or sends the bootstrap GET
getSession(c, sess) ==
    IF c.op = "makeRequest"
    THEN makeRequest([c EXCEPT !.k = 1], c.args.request, sess)
    ELSE IF sess.cached
    THEN Proceed([c EXCEPT !.sess = sess], Begin(c.op, c.args, sess), sess)
    ELSE [c EXCEPT !.pc = "awaitSession", !.ret = "op", !.gets = @ + 1,
                   !.sent = Append(@, Exchange("GET", getSessionUrl(c.auth),
                                               getAuthHeaders(c.auth), NoRequest))]

\* makeRequest ends: its invocation is complete
makeRequestEnds(c) == [c EXCEPT !.log = Append(@, c.cur)]

\* an error leaves makeRequest and the method that awaited it
makeRequestThrows(c, e) ==
    [makeRequestEnds(c) EXCEPT !.pc = "done", !.outcome = caught(c.op, Throw(e))]

\* getSession after its fetch: throws, or stores the session and returns it
getSessionReply(c, reply) ==
    IF replyFailed(reply)
    THEN LET e == replyError(reply, "Failed to get session: ") IN
         IF c.ret = "makeRequest"
         THEN makeRequestThrows([c EXCEPT !.failed = TRUE, !.completed = @ + 1,
                                          !.cur = [@ EXCEPT !.bootFailed = TRUE]], e)
         ELSE [c EXCEPT !.pc = "done", !.failed = TRUE, !.completed = @ + 1,
                        !.outcome = caught(c.op, Throw(e))]
    ELSE LET stored == sessionFrom(reply.body) IN
         IF c.ret = "makeRequest" THEN post([c EXCEPT !.completed = @ + 1], stored)
         ELSE Proceed([c EXCEPT !.sess = stored, !.completed = @ + 1],
                      Begin(c.op, c.args, stored), stored)

\* a makeRequest that waits for another answer whenever the exchange fails
makeRequestReplyRetrying(c, reply, sess) ==
    LET got == [c EXCEPT !.reply = reply, !.answered = c.request] IN
    IF replyFailed(reply) THEN [got EXCEPT !.failed = TRUE]
    ELSE IF c.op = "makeRequest"
    THEN [makeRequestEnds(got) EXCEPT !.pc = "done", !.outcome = Return(reply.body),
                                      !.completed = @ + 1]
    ELSE Proceed(makeRequestEnds([got EXCEPT !.completed = @ + 1]),
                 Resume(c.op, c.args, c.sess, c.k, c.locals, reply.body), sess)

\* makeRequest after its POST: throws, or returns the parsed body to the
\* method, which goes on
makeRequestReply(c, reply, sess) ==
    LET got == [c EXCEPT !.reply = reply, !.answered = c.request,
                         !.completed = @ + 1] IN
    IF replyFailed(reply)
    THEN LET e == replyError(reply, "JMAP request failed: ") IN
         IF c.op \in Catches
         THEN Proceed(makeRequestEnds([got EXCEPT !.failed = TRUE]),
                      Catch(c.op, c.sess, c.k, c.locals, e), sess)
         ELSE makeRequestThrows([got EXCEPT !.failed = TRUE], e)
    ELSE IF c.op = "makeRequest"
    THEN [makeRequestEnds(got) EXCEPT !.pc = "done", !.outcome = Return(reply.body)]
    ELSE Proceed(makeRequestEnds(got),
                 Resume(c.op, c.args, c.sess, c.k, c.locals, reply.body), sess)

(***************************************************************************)
(* The environment: what callers ask for and what the service may answer.  *)
(* A world is a record of bounded sets; the specifications below differ    *)
(* only in the number of overlapping calls and in the world.               *)
(***************************************************************************)
Reasons == {"notFound", "forbidden"}
SetErrors == {[type |-> r] : r \in Reasons}

Name_Inbox  == <<"I", "n", "b", "o", "x">>
Name_Sent   == <<"S", "e", "n", "t">>
Name_Drafts == <<"D", "r", "a", "f", "t", "s">>
Name_Trash  == <<"T", "r", "a", "s", "h">>

\* every Mailbox/get list of at most n mailboxes over the roles and names
MailboxLists(roles, names, n) ==
    UNION {{[k \in 1..m |-> [id |-> k, name |-> f[k][1], role |-> f[k][2]]] :
                f \in [1..m -> names \X roles]} : m \in 0..n}

\* every Email/set answer about the ids: each id updated, rejected or left out
UpdateResults(ids) ==
    UNION {{[updated |-> U, notUpdated |-> f] :
                U \in SUBSET (ids \ R), f \in [R -> SetErrors]} : R \in SUBSET ids}

\* every answer to a create of one object under the creation id
CreateResults(creationId, objects) ==
    {[created |-> [c \in {creationId} |-> o], notCreated |-> <<>>] : o \in objects}
      \cup {[created |-> <<>>, notCreated |-> [c \in {creationId} |-> e]] :
                e \in SetErrors}
      \cup {[created |-> <<>>, notCreated |-> <<>>]}

\* the sequences without repetition over a set
RECURSIVE Arrangements(_)
Arrangements(S) ==
    {<<>>} \cup UNION {{<<x>> \o t : t \in Arrangements(S \ {x})} : x \in S}

\* the sequences that list a whole set
Permutations_(S) == {a \in Arrangements(S) : Len(a) = Cardinality(S)}

\* the ascending sequence of a set of numbers
RECURSIVE Ascending(_)
Ascending(S) ==
    IF S = {} THEN <<>>
    ELSE LET m == CHOOSE x \in S : \A y \in S : x <= y
         IN <<m>> \o Ascending(S \ {m})

Identity1 == [id |-> "id1", email |-> "me@example.com", mayDelete |-> FALSE]
Identity2 == [id |-> "id2", email |-> "alias@example.com", mayDelete |-> TRUE]

SessionData1 ==
    [apiUrl |-> "https://api.fastmail.com/jmap/api/", accounts |-> <<"u1">>,
     capabilities |-> {"urn:ietf:params:jmap:core", "urn:ietf:params:jmap:mail"}]
SessionData2 ==
    [apiUrl |-> "https://api2.fastmail.com/jmap/api/", accounts |-> <<"u2", "u1">>,
     capabilities |-> {"urn:ietf:params:jmap:core"}]

\* a session a caller of makeRequest built its batch with
CallerSession == sessionFrom(SessionData1)

Email1 ==
    [to |-> <<"to@example.com">>, cc |-> <<>>, bcc |-> <<>>, subject |-> "s",
     textBody |-> "text", htmlBody |-> "", from |-> "", mailboxId |-> 0]

RecentLimitDefault == 10

\* a destructuring default: `name = d` takes d when the argument is undefined
OrDefault(x, d) == IF x.undef THEN d ELSE x.v

\* the arguments the handler passes on to the method, after the defaults of
\* its destructuring: const { limit = 10, mailboxName = 'inbox' } = args
toolArguments(tool, args) ==
    IF tool = "get_recent_emails"
    THEN [limit |-> OrDefault(args.limit, RecentLimitDefault),
          mailboxName |-> OrDefault(args.mailboxName, Str_inbox)]
    ELSE args

\* the switch of the CallToolRequestSchema handler
toolMethod(tool) ==
    CASE tool = "list_mailboxes" -> [op |-> "getMailboxes", client |-> "mail"]
      [] tool = "list_emails" -> [op |-> "getEmails", client |-> "mail"]
      [] tool = "search_emails" -> [op |-> "search_emails", client |-> "mail"]
      [] tool = "send_email" -> [op |-> "sendEmail", client |-> "mail"]
      [] tool = "list_contacts" -> [op |-> "getContacts", client |-> "contacts"]
      [] tool = "get_recent_emails" -> [op |-> "getRecentEmails", client |-> "mail"]
      [] tool = "mark_email_read" -> [op |-> "markEmailRead", client |-> "mail"]
      [] tool = "delete_email" -> [op |-> "deleteEmail", client |-> "mail"]
      [] tool = "move_email" -> [op |-> "moveEmail", client |-> "mail"]
      [] tool = "bulk_mark_read" -> [op |-> "bulkMarkRead", client |-> "mail"]
      [] tool = "bulk_move" -> [op |-> "bulkMove", client |-> "mail"]
      [] tool = "bulk_delete" -> [op |-> "bulkDelete", client |-> "mail"]
      [] tool = "get_email" -> [op |-> "getEmailById", client |-> "mail"]
      [] tool = "list_identities" -> [op |-> "getIdentities", client |-> "mail"]
      [] tool = "get_email_attachments" ->
            [op |-> "getEmailAttachments", client |-> "mail"]
      [] tool = "advanced_search" -> [op |-> "advancedSearch", client |-> "mail"]
      [] tool = "get_thread" -> [op |-> "getThread", client |-> "mail"]
      [] tool = "get_mailbox_stats" -> [op |-> "getMailboxStats", client |-> "mail"]
      [] tool = "get_account_summary" ->
            [op |-> "getAccountSummary", client |-> "mail"]
      [] tool = "get_contact" -> [op |-> "getContactById", client |-> "contacts"]
      [] tool = "search_contacts" -> [op |-> "searchContacts", client |-> "contacts"]
      [] tool = "list_calendars" -> [op |-> "getCalendars", client |-> "contacts"]
      [] tool = "list_calendar_events" ->
            [op |-> "getCalendarEvents", client |-> "contacts"]
      [] tool = "get_calendar_event" ->
            [op |-> "getCalendarEventById", client |-> "contacts"]
      [] tool = "create_calendar_event" ->
            [op |-> "createCalendarEvent", client |-> "contacts"]

ToolCall(tool, args) == [tool |-> tool, args |-> args]
MethodCallOf(op, args) == [op |-> op, args |-> args]

\* the world of the overlapping calls: few operations, few answers
SmallWorld ==
    [tools |-> {ToolCall("list_mailboxes", NoArgs),
                ToolCall("delete_email", [emailId |-> 1]),
                ToolCall("list_contacts", [limit |-> 50])},
     methods |-> {MethodCallOf("getSession", NoArgs),
                  MethodCallOf("makeRequest",
                               [request |-> getMailboxesRequest(CallerSession)])},
     sessionReplies |-> {NetworkFailure, HttpError(401, "Unauthorized"),
                         Ok(SessionData1), Ok(SessionData2)},
     batchFailures |-> {HttpError(500, "Internal Server Error")},
     mailboxLists |-> [op \in {"getMailboxes", "makeRequest", "deleteEmail"} |->
                         {<<>>, <<[id |-> 1, name |-> Name_Trash, role |-> Str_trash]>>}],
     identityLists |-> {<<Identity1>>},
     queryIds |-> {<<1>>},
     getLists |-> {<<[id |-> 1]>>},
     updateResults |-> {[updated |-> {1}, notUpdated |-> <<>>],
                        [updated |-> {}, notUpdated |-> [e \in {1} |-> [type |-> "notFound"]]]},
     createdEmails |-> {1},
     malformed |-> FALSE,
     partial |-> {},
     envs |-> {[apiToken |-> "fmu1-aaaa", baseUrl |-> ""],
               [apiToken |-> "fmu1-bbbb", baseUrl |-> "https://jmap.example.com"]}]

NonEmptySubsets(S) == SUBSET S \ {{}}

\* the world of one call at a time: every operation, every shape of answer
FullWorld ==
    [tools |->
        {ToolCall("list_mailboxes", NoArgs),
         ToolCall("search_emails", [query |-> "q", limit |-> 20]),
         ToolCall("list_contacts", [limit |-> 50])}
          \cup {ToolCall("list_emails", [mailboxId |-> m, limit |-> 20]) : m \in {0, 1}}
          \cup {ToolCall("send_email", [email |-> e]) :
                    e \in {Email1,
                           [Email1 EXCEPT !.from = "alias@example.com"],
                           [Email1 EXCEPT !.textBody = "", !.htmlBody = "<p>html</p>"],
                           [Email1 EXCEPT !.mailboxId = 9]}}
          \cup {ToolCall("get_recent_emails", [limit |-> Def(l), mailboxName |-> Def(n)]) :
                    l \in {10, 60}, n \in {Str_inbox, Name_Sent}}
          \cup {ToolCall("mark_email_read", [emailId |-> e, read |-> r]) :
                    e \in EmailIds, r \in BOOLEAN}
          \cup {ToolCall("delete_email", [emailId |-> e]) : e \in EmailIds}
          \cup {ToolCall("move_email", [emailId |-> e, targetMailboxId |-> 1]) :
                    e \in EmailIds}
          \cup {ToolCall("bulk_mark_read", [emailIds |-> Ascending(S), read |-> r]) :
                    S \in NonEmptySubsets(EmailIds), r \in BOOLEAN}
          \cup {ToolCall("bulk_move", [emailIds |-> Ascending(S), targetMailboxId |-> 1]) :
                    S \in NonEmptySubsets(EmailIds)}
          \cup {ToolCall("bulk_delete", [emailIds |-> Ascending(S)]) :
                    S \in NonEmptySubsets(EmailIds)},
     methods |-> {MethodCallOf("getSession", NoArgs),
                  MethodCallOf("makeRequest",
                               [request |-> getMailboxesRequest(CallerSession)]),
                  MethodCallOf("sendEmail",
                               [email |-> [Email1 EXCEPT !.textBody = ""]]),
                  MethodCallOf("getUserEmail", NoArgs)},
     sessionReplies |-> {NetworkFailure, HttpError(401, "Unauthorized"), BadJson,
                         Ok(SessionData1)},
     batchFailures |-> {NetworkFailure, HttpError(500, "Internal Server Error"),
                        BadJson},
     mailboxLists |->
        [op \in {"getMailboxes", "makeRequest", "deleteEmail", "bulkDelete",
                 "sendEmail", "getRecentEmails"} |->
            CASE op \in {"deleteEmail", "bulkDelete"} ->
                    MailboxLists({NullRole, Str_trash, Str_inbox},
                                 {Name_Trash, Name_Inbox}, MaxMailboxes)
              [] op = "sendEmail" ->
                    MailboxLists({NullRole, Str_drafts, Str_sent},
                                 {Name_Drafts, Name_Sent}, MaxMailboxes)
              [] op = "getRecentEmails" ->
                    MailboxLists({NullRole, Str_inbox, Str_sent},
                                 {Name_Inbox, Name_Sent}, MaxMailboxes)
              [] OTHER ->
                    MailboxLists({Str_inbox}, {Name_Inbox}, MaxMailboxes)],
     identityLists |-> {<<>>, <<Identity1>>, <<Identity2>>, <<Identity2, Identity1>>},
     queryIds |-> {<<>>} \cup Permutations_(EmailIds),
     getLists |-> {[k \in DOMAIN a |-> [id |-> a[k]]] : a \in Arrangements(EmailIds)},
     updateResults |-> UpdateResults(EmailIds),
     createdEmails |-> EmailIds,
     malformed |-> TRUE,
     partial |-> {},
     envs |-> {[apiToken |-> "fmu1-aaaa", baseUrl |-> ""]}]

\* advanced_search arguments: nothing given
NoFilters ==
    [query |-> "", from |-> "", to |-> "", subject |-> "",
     hasAttachment |-> Undefined, isUnread |-> Undefined, mailboxId |-> 0,
     after |-> "", before |-> "", limit |-> 0]

Event1 ==
    [calendarId |-> 1, title |-> "t", description |-> "", start |-> "2024-01-01T10:00:00",
     end |-> "2024-01-01T11:00:00", location |-> "", participants |-> <<>>]

\* the public operations of both clients
Operations ==
    {"getMailboxes", "getEmails", "getEmailById", "getIdentities", "sendEmail",
     "getRecentEmails", "markEmailRead", "deleteEmail", "moveEmail",
     "getEmailAttachments", "advancedSearch", "getThread", "getMailboxStats",
     "getAccountSummary", "bulkMarkRead", "bulkMove", "bulkDelete", "search_emails",
     "getContacts", "getContactById", "searchContacts", "getCalendars",
     "getCalendarEvents", "getCalendarEventById", "createCalendarEvent",
     "getUserEmail", "getSession", "makeRequest"}

\* the world of one call at a time over every tool of the server, with the
\* answers a service gives to well-formed batches, a /get answer without its
\* list among them
AllWorld ==
    [tools |->
        {ToolCall("list_mailboxes", NoArgs),
         ToolCall("get_email", [emailId |-> 1]),
         ToolCall("send_email", [email |-> Email1]),
         ToolCall("send_email", [email |-> [Email1 EXCEPT !.cc = <<"cc@example.com">>,
                                                          !.bcc = <<"bcc@example.com">>]]),
         ToolCall("search_emails", [query |-> "q", limit |-> 20]),
         ToolCall("list_contacts", [limit |-> 50]),
         ToolCall("get_contact", [contactId |-> 1]),
         ToolCall("search_contacts", [query |-> "q", limit |-> 20]),
         ToolCall("list_calendars", NoArgs),
         ToolCall("get_calendar_event", [eventId |-> 1]),
         ToolCall("create_calendar_event", [event |-> Event1]),
         ToolCall("list_identities", NoArgs),
         ToolCall("get_recent_emails", [limit |-> Undefined, mailboxName |-> Undefined]),
         ToolCall("get_recent_emails", [limit |-> Def(RecentLimitCap),
                                        mailboxName |-> Def(Str_inbox)]),
         ToolCall("get_recent_emails", [limit |-> Def(RecentLimitCap + MaxEmails),
                                        mailboxName |-> Undefined]),
         ToolCall("mark_email_read", [emailId |-> 1, read |-> TRUE]),
         ToolCall("delete_email", [emailId |-> 1]),
         ToolCall("move_email", [emailId |-> 1, targetMailboxId |-> 1]),
         ToolCall("get_email_attachments", [emailId |-> 1]),
         ToolCall("get_thread", [threadId |-> 1]),
         ToolCall("get_account_summary", NoArgs),
         ToolCall("bulk_mark_read", [emailIds |-> Ascending(EmailIds), read |-> TRUE]),
         ToolCall("bulk_move", [emailIds |-> Ascending(EmailIds),
                                targetMailboxId |-> 1]),
         ToolCall("bulk_delete", [emailIds |-> Ascending(EmailIds)])}
          \cup {ToolCall("list_emails", [mailboxId |-> m, limit |-> 20]) : m \in {0, 1}}
          \cup {ToolCall("list_calendar_events", [calendarId |-> m, limit |-> 50]) :
                    m \in {0, 1}}
          \cup {ToolCall("get_mailbox_stats", [mailboxId |-> m]) : m \in {0, 1}}
          \cup {ToolCall("advanced_search", [filters |-> f]) :
                    f \in {NoFilters,
                           [NoFilters EXCEPT !.isUnread = Def(TRUE)],
                           [NoFilters EXCEPT !.isUnread = Def(FALSE)],
                           [NoFilters EXCEPT !.query = "q", !.limit = 200],
                           [NoFilters EXCEPT !.hasAttachment = Def(TRUE),
                                             !.mailboxId = 1]}},
     methods |-> {MethodCallOf("getSession", NoArgs),
                  MethodCallOf("makeRequest",
                               [request |-> getMailboxesRequest(CallerSession)]),
                  MethodCallOf("getUserEmail", NoArgs),
                  MethodCallOf(README_getContacts, [limit |-> 50])},
     sessionReplies |-> {HttpError(401, "Unauthorized"), Ok(SessionData1)},
     batchFailures |-> {HttpError(500, "Internal Server Error"),
                        HttpError(503, "Service Unavailable")},
     mailboxLists |->
        [op \in Operations |->
            {<<>>,
             <<[id |-> 1, name |-> Name_Drafts, role |-> Str_drafts],
               [id |-> 2, name |-> Name_Sent, role |-> Str_sent]>>,
             <<[id |-> 1, name |-> Name_Trash, role |-> Str_trash],
               [id |-> 2, name |-> Name_Inbox, role |-> Str_inbox]>>}],
     identityLists |-> {<<>>, <<Identity1>>},
     queryIds |-> {Ascending(EmailIds)},
     getLists |-> {[k \in DOMAIN a |-> [id |-> a[k]]] : a \in Arrangements(EmailIds)}
                    \cup {<<[id |-> 1, attachments |-> <<[partId |-> "1"]>>]>>},
     updateResults |-> SmallWorld.updateResults,
     createdEmails |-> {1},
     malformed |-> FALSE,
     partial |-> {[notFound |-> <<>>]},
     envs |-> {[apiToken |-> "fmu1-aaaa", baseUrl |-> ""]}]

\* one step of a batch response
ResponseStep(name, payload, label) ==
    [name |-> name, payload |-> payload, label |-> label]

\* the payloads the service may answer a method call with
Payloads(w, c, mc) ==
    CASE mc.name = "Mailbox/get" ->
            {[list |-> l] : l \in w.mailboxLists[c.op]} \cup w.partial
      [] mc.name = "Identity/get" ->
            {[list |-> l] : l \in w.identityLists} \cup w.partial
      [] mc.name \in {"Email/query", "Contact/query", "CalendarEvent/query"} ->
            {[ids |-> q] : q \in w.queryIds}
      [] mc.name \in {"Email/get", "Contact/get", "CalendarEvent/get",
                      "Calendar/get"} ->
            {[list |-> l] : l \in w.getLists} \cup w.partial
      [] mc.name = "AddressBook/get" ->
            {[list |-> l] : l \in {<<>>, <<[id |-> "ab1"]>>}} \cup w.partial
      [] mc.name = "CalendarEvent/set" ->
            CreateResults("newEvent", {[id |-> "ev1"]})
      [] mc.name = "Email/set" /\ "update" \in DOMAIN mc.args -> w.updateResults
      [] mc.name = "Email/set" /\ "create" \in DOMAIN mc.args ->
            CreateResults("draft", {[id |-> e] : e \in w.createdEmails})
      [] mc.name = "EmailSubmission/set" ->
            CreateResults("submission", {[id |-> "sub1"]})

\* the sequences that take their k-th element from the k-th set
RECURSIVE Product(_)
Product(sets) ==
    IF sets = <<>> THEN {<<>>}
    ELSE {<<h>> \o t : h \in Head(sets), t \in Product(Tail(sets))}

\* the responses that answer every step of the batch, in order, under its label
WellFormed(w, c, request) ==
    Product([k \in DOMAIN request.methodCalls |->
                {ResponseStep(request.methodCalls[k].name, p,
                              request.methodCalls[k].label) :
                    p \in Payloads(w, c, request.methodCalls[k])}])

\* a response cut short, one with a step under another label, and one with a
\* step answered by a method-level error
Malformed(body) ==
    {SubSeq(body, 1, n) : n \in 0..(Len(body) - 1)}
      \cup {[body EXCEPT ![k].label = "unexpected"] : k \in DOMAIN body}
      \cup {[body EXCEPT ![k] = ResponseStep("error", [type |-> "serverFail"],
                                             body[k].label)] : k \in DOMAIN body}

Bodies(w, c, request) ==
    LET good == WellFormed(w, c, request) IN
    IF w.malformed THEN good \cup UNION {Malformed(b) : b \in good} ELSE good

BatchReplies(w, c) ==
    w.batchFailures \cup {Ok(b) : b \in Bodies(w, c, c.request)}

(***************************************************************************)
(* The state machine.                                                      *)
(***************************************************************************)
Init ==
    /\ jmapClient = null
    /\ contactsCalendarClient = null
    /\ session = [c \in Clients |-> NoSession]
    /\ calls = [i \in CallIds |-> IdleCall]
    /\ sessionRequests = [c \in Clients |-> 0]

\* process.env as a call finds it: it is the same for the whole run of the
\* server, so it is the one a client was already constructed over
Environment(w) ==
    {env \in w.envs :
        \A client \in {jmapClient, contactsCalendarClient} :
            client.constructed => FastmailAuth(env) = client.auth}

\* calls are numbered in the order they start
MayStart(i) ==
    /\ calls[i].pc = "idle"
    /\ \A j \in CallIds : j < i => calls[j].pc # "idle"

\* a call record takes its next value; the bootstrap GETs it sent are counted
Step(i, new) ==
    /\ calls' = [calls EXCEPT ![i] = new]
    /\ sessionRequests' =
          [sessionRequests EXCEPT ![new.client] = @ + (new.gets - calls[i].gets)]

\* the CallToolRequestSchema handler up to the first fetch of the method it
\* calls: initializeClient(), initializeContactsCalendarClient() for a
\* contacts tool, then the method
CallTool(i, w) ==
    /\ MayStart(i)
    /\ \E t \in w.tools, env \in Environment(w) :
          LET m == toolMethod(t.tool)
              client == initializeClient(jmapClient, env)
              contactsClient == initializeClient(contactsCalendarClient, env)
              c == [IdleCall EXCEPT !.via = "tool", !.tool = t.tool, !.op = m.op,
                                    !.client = m.client, !.given = t.args,
                                    !.args = toolArguments(t.tool, t.args),
                                    !.auth = IF m.client = "contacts"
                                             THEN contactsClient.auth
                                             ELSE client.auth]
          IN /\ jmapClient' = client
             /\ contactsCalendarClient' =
                   IF m.client = "contacts" THEN contactsClient
                   ELSE contactsCalendarClient
             /\ Step(i, getSession(c, session[m.client]))
             /\ UNCHANGED session

\* a caller that holds the client of initializeClient(), or the one of
\* initializeContactsCalendarClient(), calls one of its public methods itself
CallMethod(i, w) ==
    /\ MayStart(i)
    /\ \E m \in w.methods, env \in Environment(w) :
          LET on == IF m.op = README_getContacts THEN "contacts" ELSE "mail"
              client == initializeClient(IF on = "contacts"
                                         THEN contactsCalendarClient
                                         ELSE jmapClient, env)
              c == [IdleCall EXCEPT !.via = "method", !.op = m.op,
                                    !.client = on, !.args = m.args,
                                    !.auth = client.auth]
          IN /\ jmapClient' = IF on = "mail" THEN client ELSE jmapClient
             /\ contactsCalendarClient' =
                   IF on = "contacts" THEN client ELSE contactsCalendarClient
             /\ Step(i, getSession(c, session[on]))
             /\ UNCHANGED session

\* the bootstrap GET of call i is answered
SessionReply(i, w) ==
    /\ calls[i].pc = "awaitSession"
    /\ \E reply \in w.sessionReplies :
          /\ Step(i, getSessionReply(calls[i], reply))
          /\ session' = [session EXCEPT ![calls[i].client] = cacheSession(@, reply)]
          /\ UNCHANGED <<jmapClient, contactsCalendarClient>>

\* the batch POST of call i is answered
BatchReply(i, w) ==
    /\ calls[i].pc = "awaitBatch"
    /\ \E reply \in BatchReplies(w, calls[i]) :
          /\ Step(i, makeRequestReply(calls[i], reply, session[calls[i].client]))
          /\ UNCHANGED <<jmapClient, contactsCalendarClient, session>>

\* no call is between its start and its end
Quiet == \A j \in CallIds : calls[j].pc \in {"idle", "done"}

\* overlapping calls of tools and methods
Next ==
    \E i \in CallIds :
        \/ CallTool(i, SmallWorld)
        \/ CallMethod(i, SmallWorld)
        \/ SessionReply(i, SmallWorld)
        \/ BatchReply(i, SmallWorld)

Spec == Init /\ [][Next]_vars

\* the small world with a service that answers every bootstrap request
SeqWorld ==
    [SmallWorld EXCEPT
        !.sessionReplies = {Ok(SessionData1), Ok(SessionData2)},
        !.tools = @ \cup {ToolCall("send_email", [email |-> Email1]),
                          ToolCall("list_emails", [mailboxId |-> 1, limit |-> 20])},
        !.mailboxLists =
            [op \in DOMAIN @ \cup {"sendEmail"} |->
                IF op = "sendEmail"
                THEN {<<[id |-> 1, name |-> Name_Drafts, role |-> Str_drafts],
                        [id |-> 2, name |-> Name_Sent, role |-> Str_sent]>>}
                ELSE @[op]]]

\* tool calls one after the other: a call starts when none is running
NextSeq ==
    \E i \in CallIds :
        \/ Quiet /\ CallTool(i, SeqWorld)
        \/ SessionReply(i, SeqWorld)
        \/ BatchReply(i, SeqWorld)

SpecSeq == Init /\ [][NextSeq]_vars

\* calls one after the other on a service whose bootstrap may fail
NextRetry ==
    \E i \in CallIds :
        \/ Quiet /\ CallTool(i, SmallWorld)
        \/ Quiet /\ CallMethod(i, SmallWorld)
        \/ SessionReply(i, SmallWorld)
        \/ BatchReply(i, SmallWorld)

SpecRetry == Init /\ [][NextRetry]_vars

\* one call, every operation, every answer
NextOps ==
    \/ CallTool(1, FullWorld)
    \/ CallMethod(1, FullWorld)
    \/ SessionReply(1, FullWorld)
    \/ BatchReply(1, FullWorld)

SpecOps == Init /\ [][NextOps]_vars

\* one call, every tool of the server
NextAll ==
    \/ CallTool(1, AllWorld)
    \/ CallMethod(1, AllWorld)
    \/ SessionReply(1, AllWorld)
    \/ BatchReply(1, AllWorld)

SpecAll == Init /\ [][NextAll]_vars

\* one call over every tool of the server, when every exchange that was
\* started is answered or fails in the end: fetch settles its promise
SpecLive ==
    /\ Init
    /\ [][NextAll]_vars
    /\ WF_vars(SessionReply(1, AllWorld))
    /\ WF_vars(BatchReply(1, AllWorld))

(***************************************************************************)
(* Properties.                                                             *)
(***************************************************************************)
Done(i) == calls[i].pc = "done"
Threw(i) == Done(i) /\ calls[i].outcome.kind = "throw"
Returned(i) == Done(i) /\ calls[i].outcome.kind = "return"

\* C1: for one JmapClient, over any interleaving of getSession calls, the
\* session bootstrap endpoint is requested at most once.
C1_BootstrapRequestedAtMostOnce ==
    \A c \in Clients : sessionRequests[c] <= 1

\* C2: once a client's cached session is populated it is never reassigned:
\* every later state holds the endpoint, account id and capabilities that were
\* stored first.
C2_SessionNeverReassigned ==
    [][\A c \in Clients : session[c].cached => session'[c] = session[c]]_vars

\* C3: within one server process, over any sequence of tool calls (mail and
\* contacts tools mixed), the bootstrap endpoint is requested at most one time
\* in total.
C3_OneBootstrapPerProcess ==
    sessionRequests["mail"] + sessionRequests["contacts"] <= 1

\* the makeRequest invocations of call i that have ended
Invocations(i) == {calls[i].log[n] : n \in DOMAIN calls[i].log}

\* C4 as claimed: every invocation of makeRequest performs exactly one network
\* exchange, the batch POST, also when the session was not cached on entry.
C4_ExactlyOneExchange ==
    \A i \in CallIds : \A m \in Invocations(i) : m.posts = 1 /\ m.gets = 0

\* C4 as amended: an invocation of makeRequest never sends its batch twice; it
\* performs exactly one exchange (the POST) when the session is cached on
\* entry; when it is not, it first sends one bootstrap GET, and then the POST
\* exactly when that bootstrap succeeded.
C4_OnePostAfterSession ==
    \A i \in CallIds :
        /\ calls[i].cur.posts <= 1
        /\ \A m \in Invocations(i) :
              /\ m.posts <= 1
              /\ m.cached => (m.gets = 0 /\ m.posts = 1)
              /\ ~m.cached => (m.gets = 1 /\ (m.posts = 1 <=> ~m.bootFailed))

\* a makeRequest invocation entered without a cached session has fetched the
\* session and sent its batch
C4_Witness ==
    \E i \in CallIds : \E m \in Invocations(i) :
        ~m.cached /\ m.gets = 1 /\ m.posts = 1

\* call i has ended and its last batch was answered with a parsed body
Answered(i) == Done(i) /\ calls[i].reply.kind = "http" /\ calls[i].reply.ok

\* the batch that was answered, its response, and the method's position
AnsweredCalls(i) == calls[i].answered.methodCalls
Body(i) == calls[i].reply.body

\* the response has fewer steps than the batch, or a step under a label that
\* is not the label of the batch's step at the same position
Mismatched(i) ==
    \/ Len(Body(i)) < Len(AnsweredCalls(i))
    \/ \E n \in DOMAIN Body(i) : Body(i)[n].label # AnsweredCalls(i)[n].label

\* C5: when the response has fewer steps than the request, or a response
\* step's label differs from the request step's label at the same position,
\* the operation raises an error (the claim: a ProtocolError) instead of
\* returning a payload taken by position.
C5_MismatchRaises ==
    \A i \in CallIds : (Answered(i) /\ Mismatched(i)) => Threw(i)

SingleMutations == {"markEmailRead", "moveEmail", "deleteEmail"}
BulkMutations == {"bulkMarkRead", "bulkMove", "bulkDelete"}

\* call i has ended on the answer to its Email/set update batch
SetAnswered(i) ==
    /\ Answered(i)
    /\ Len(AnsweredCalls(i)) = 1
    /\ AnsweredCalls(i)[1].name = "Email/set"
    /\ Len(Body(i)) >= 1

\* the ids the Set step's answer rejects
Rejected(i) ==
    IF "notUpdated" \in DOMAIN Body(i)[1].payload
    THEN DOMAIN Body(i)[1].payload.notUpdated
    ELSE {}

\* C6: markEmailRead, moveEmail and deleteEmail on a target id X: whenever the
\* Set step's not-updated set contains X, the operation raises an error that
\* contains both X and the reason code reported for X.
C6_RejectionNamesIdAndReason ==
    \A i \in CallIds :
        (/\ calls[i].op \in SingleMutations
         /\ SetAnswered(i)
         /\ calls[i].args.emailId \in Rejected(i))
        => /\ Threw(i)
           /\ calls[i].args.emailId \in calls[i].outcome.error.ids
           /\ Body(i)[1].payload.notUpdated[calls[i].args.emailId].type
                 \in calls[i].outcome.error.reasons

\* C7: bulkMarkRead, bulkMove and bulkDelete over an id set sent as one Set
\* step: when the service rejects a non-empty set R of ids the operation
\* raises one rejection whose reported id set is exactly R, with the reason
\* codes of R, and when R is empty it returns normally.
C7_BulkRejectionIsExact ==
    \A i \in CallIds :
        (calls[i].op \in BulkMutations /\ SetAnswered(i))
        => IF Rejected(i) # {}
           THEN /\ Threw(i)
                /\ calls[i].outcome.error.ids = Rejected(i)
                /\ calls[i].outcome.error.reasons =
                      {Body(i)[1].payload.notUpdated[e].type : e \in Rejected(i)}
           ELSE Returned(i)

\* a bulk operation over two ids of which the service rejected one has raised
\* a rejection that names that one
C7_Witness ==
    \E i \in CallIds :
        /\ calls[i].op \in BulkMutations
        /\ SetAnswered(i)
        /\ Cardinality(Range(calls[i].args.emailIds)) >= 2
        /\ Cardinality(Rejected(i)) = 1
        /\ Rejected(i) \subseteq Range(calls[i].args.emailIds)
        /\ Threw(i)
        /\ calls[i].outcome.error.ids = Rejected(i)

\* call i is a sendEmail that has ended on the answer to its create/submit batch
SendAnswered(i) ==
    /\ calls[i].op = "sendEmail"
    /\ Answered(i)
    /\ Len(AnsweredCalls(i)) = 2
    /\ AnsweredCalls(i)[2].name = "EmailSubmission/set"

\* step n of the answer rejects the creation id
StepRejects(i, n, creationId) ==
    /\ Len(Body(i)) >= n
    /\ notCreatedHas(Body(i)[n].payload, creationId)

\* step n of the answer reports the creation id as created
StepCreated(i, n, creationId) ==
    /\ Len(Body(i)) >= n
    /\ "created" \in DOMAIN Body(i)[n].payload
    /\ creationId \in DOMAIN Body(i)[n].payload.created

\* C8: in sendEmail, when the create step succeeds and the submission step's
\* rejection set contains the submission, the raised error refers to the
\* submission step's failure and includes the id of the email that was created.
C8_SubmitErrorNamesCreatedEmail ==
    \A i \in CallIds :
        (/\ SendAnswered(i)
         /\ StepCreated(i, 1, "draft")
         /\ ~StepRejects(i, 1, "draft")
         /\ StepRejects(i, 2, "submission"))
        => /\ Threw(i)
           /\ calls[i].outcome.error.text = "Failed to submit email: "
           /\ Body(i)[1].payload.created["draft"].id \in calls[i].outcome.error.ids

\* C9: sendEmail checks the create step's and the submission step's rejection
\* sets independently: it raises whenever either set contains its creation
\* id, whatever the other step reports, so a created-but-not-submitted outcome
\* is never returned as a successful send.
C9_EitherRejectionRaises ==
    \A i \in CallIds :
        (/\ SendAnswered(i)
         /\ \/ StepRejects(i, 1, "draft")
            \/ StepRejects(i, 2, "submission"))
        => Threw(i)

\* a sendEmail whose email was created and whose submission was rejected has
\* raised the submission's failure
C9_Witness ==
    \E i \in CallIds :
        /\ SendAnswered(i)
        /\ StepCreated(i, 1, "draft")
        /\ StepRejects(i, 2, "submission")
        /\ Threw(i)
        /\ calls[i].outcome.error.text = "Failed to submit email: "

\* call i has looked a container up in a mailbox list
Resolved(i) == "mailboxes" \in DOMAIN calls[i].locals

\* the lookups of call i: the role it wanted and the position it selected
Lookups(i) ==
    CASE calls[i].op = "sendEmail" ->
            {[role |-> Str_drafts, selected |-> calls[i].locals.drafts],
             [role |-> Str_sent, selected |-> calls[i].locals.sent]}
      [] calls[i].op \in {"deleteEmail", "bulkDelete"} ->
            {[role |-> Str_trash, selected |-> calls[i].locals.selected]}
      [] calls[i].op = "getRecentEmails" ->
            {[role |-> toLowerCase(calls[i].args.mailboxName),
              selected |-> calls[i].locals.selected]}
      [] OTHER -> {}

\* C10: for every container list and every operation that resolves a
\* container by role (sendEmail, deleteEmail, bulkDelete, getRecentEmails): if
\* some container carries the exact role tag, a container with that role is
\* selected, wherever the containers whose name merely contains the text are.
C10_RoleTagWins ==
    \A i \in CallIds :
        Resolved(i) =>
            \A l \in Lookups(i) :
                roleIs(calls[i].locals.mailboxes, l.role) # {}
                    => l.selected \in roleIs(calls[i].locals.mailboxes, l.role)

\* the containers call i requires: the role tag and the name text looked for
Wanted(i) ==
    CASE calls[i].op = "sendEmail" ->
            {[role |-> Str_drafts, text |-> Str_draft],
             [role |-> Str_sent, text |-> Str_sent]}
      [] calls[i].op \in {"deleteEmail", "bulkDelete"} ->
            {[role |-> Str_trash, text |-> Str_trash]}
      [] calls[i].op = "getRecentEmails" ->
            {[role |-> toLowerCase(calls[i].args.mailboxName),
              text |-> toLowerCase(calls[i].args.mailboxName)]}
      [] OTHER -> {}

\* call i looked its containers up and one of them has neither a role match
\* nor a name match in the list
Unresolvable(i) ==
    /\ Resolved(i)
    /\ \E l \in Wanted(i) :
          /\ roleIs(calls[i].locals.mailboxes, l.role) = {}
          /\ nameIncludes(calls[i].locals.mailboxes, l.text) = {}

ConfigurationErrors ==
    {"Could not find Drafts mailbox to save email",
     "Could not find Sent mailbox to move email after sending",
     "Could not find Trash mailbox",
     "Could not find mailbox: "}

\* C11: when neither a role match nor a name match exists for a required
\* container (drafts, sent, trash, or the named mailbox), the operation fails
\* with a configuration error, and the last batch it has sent is the container
\* lookup: no mutate, submit or query batch is sent for it.
C11_UnresolvedContainerFails ==
    \A i \in CallIds :
        Unresolvable(i) =>
            /\ Threw(i)
            /\ calls[i].outcome.error.text \in ConfigurationErrors
            /\ calls[i].request.methodCalls[1].name = "Mailbox/get"
            /\ calls[i].answered = calls[i].request

\* a deleteEmail that was answered a non-empty list without a trash mailbox
\* has failed after its lookup, the only batch it sent
C11_Witness ==
    \E i \in CallIds :
        /\ calls[i].op = "deleteEmail"
        /\ Unresolvable(i)
        /\ calls[i].locals.mailboxes # <<>>
        /\ Threw(i)
        /\ calls[i].outcome.error.text = "Could not find Trash mailbox"
        /\ calls[i].posts = 1

\* the operations that resolve a container before their own batch
ContainerOperations == {"sendEmail", "deleteEmail", "bulkDelete", "getRecentEmails"}

\* C12: with the session already cached when it starts (the call sends no
\* bootstrap request), a domain operation performs at most one network round
\* trip, or at most two when it first resolves a container; none performs
\* three or more exchanges.
C12_AtMostTwoRoundTrips ==
    \A i \in CallIds :
        (calls[i].via = "tool" /\ calls[i].gets = 0)
        => calls[i].posts <= (IF calls[i].op \in ContainerOperations THEN 2 ELSE 1)

\* the service has rejected what call i asked it to change or create
RemoteRejection(i) ==
    \/ /\ SetAnswered(i)
       /\ \/ calls[i].op \in SingleMutations /\ calls[i].args.emailId \in Rejected(i)
          \/ calls[i].op \in BulkMutations /\ Rejected(i) # {}
    \/ /\ SendAnswered(i)
       /\ StepRejects(i, 1, "draft") \/ StepRejects(i, 2, "submission")

\* C13: every failure inside a core operation (a failed exchange or a remote
\* rejection) reaches the immediate caller as an error: no operation returns a
\* normal value after one of its exchanges failed, and no operation sends a
\* further request after a failure.
C13_FailuresReachTheCaller ==
    /\ [](\A i \in CallIds :
            (Done(i) /\ (calls[i].failed \/ RemoteRejection(i))) => Threw(i))
    /\ [][\A i \in CallIds :
            calls[i].failed => /\ calls'[i].posts = calls[i].posts
                               /\ calls'[i].gets = calls[i].gets]_vars

\* the batch endpoint has answered the last makeRequest of call i with a
\* status outside 2xx
BatchRefused(i) == calls[i].reply.kind = "http" /\ ~calls[i].reply.ok

\* C14: when the batch endpoint answers with a non-2xx status, makeRequest
\* raises a transport error that carries both the status code and the status
\* text, and that invocation has sent its batch once and sends nothing more.
C14_TransportErrorCarriesStatus ==
    \A i \in CallIds :
        (BatchRefused(i) /\ calls[i].op = "makeRequest")
        => /\ Threw(i)
           /\ calls[i].outcome.error.statusText = calls[i].reply.statusText
           /\ calls[i].outcome.error.status = calls[i].reply.status
           /\ calls[i].log[Len(calls[i].log)].posts = 1

\* the client object call i runs on
ClientOf(i) == IF calls[i].client = "contacts" THEN contactsCalendarClient ELSE jmapClient

\* C15: every outbound exchange, the session bootstrap GET as well as every
\* batch POST, carries the Authorization header `Bearer <token>` built from
\* the API token the client was configured with.
C15_EveryExchangeIsAuthorized ==
    \A i \in CallIds :
        \A n \in DOMAIN calls[i].sent :
            LET headers == calls[i].sent[n].headers IN
            /\ "Authorization" \in DOMAIN headers
            /\ headers["Authorization"] = <<"Bearer ", ClientOf(i).auth.apiToken>>
            /\ ClientOf(i).auth.apiToken # ""

\* a call has sent its bootstrap GET and then a batch POST, both under the
\* bearer header of the token the server was started with
C15_Witness ==
    \E i \in CallIds :
        /\ Len(calls[i].sent) >= 2
        /\ calls[i].sent[1].method = "GET"
        /\ calls[i].sent[2].method = "POST"
        /\ \A n \in {1, 2} :
              calls[i].sent[n].headers["Authorization"] = <<"Bearer ", "fmu1-bbbb">>

\* the batches call i has sent, in order
Batches(i) ==
    {calls[i].sent[n].body : n \in {m \in DOMAIN calls[i].sent :
                                       calls[i].sent[m].method = "POST"}}

\* C16: in every batch built by any operation, the step labels are pairwise
\* distinct.
C16_LabelsAreDistinct ==
    \A i \in CallIds :
        \A batch \in Batches(i) :
            \A j, k \in DOMAIN batch.methodCalls :
                batch.methodCalls[j].label = batch.methodCalls[k].label => j = k

\* a sendEmail has sent its batch of two steps, under two labels
C16_Witness ==
    \E i \in CallIds :
        \E batch \in Batches(i) :
            /\ calls[i].op = "sendEmail"
            /\ Len(batch.methodCalls) = 2
            /\ batch.methodCalls[1].label = "createEmail"
            /\ batch.methodCalls[2].label = "submitEmail"

\* the positions of a batch that hold a back-reference
Referring(batch) ==
    {k \in DOMAIN batch.methodCalls : "ref_ids" \in DOMAIN batch.methodCalls[k].args}

\* C17: in every batch built by any operation, each back-reference names the
\* label of a step placed strictly earlier in the same batch, and the method
\* name recorded in the reference is the method name of that earlier step.
C17_BackReferencesPointBack ==
    \A i \in CallIds :
        \A batch \in Batches(i) :
            \A k \in Referring(batch) :
                LET ref == batch.methodCalls[k].args.ref_ids IN
                \E j \in 1..(k - 1) :
                    /\ batch.methodCalls[j].label = ref.resultOf
                    /\ batch.methodCalls[j].name = ref.name

\* a getThread and a contacts search have each sent a batch whose second step
\* refers to the query step before it
C17_Witness ==
    \E i \in CallIds :
        \E batch \in Batches(i) :
            /\ calls[i].op \in {"getThread", "searchContacts"}
            /\ Referring(batch) = {2}
            /\ batch.methodCalls[2].args.ref_ids.resultOf = batch.methodCalls[1].label

\* calls i and j run the same operation on identical arguments, with the same
\* session, and stand at the same batch with the same identity and container
\* list behind them
SameBuild(i, j) ==
    /\ calls[i].pc # "idle" /\ calls[j].pc # "idle"
    /\ calls[i].op = calls[j].op
    /\ calls[i].args = calls[j].args
    /\ calls[i].sess = calls[j].sess
    /\ calls[i].k = calls[j].k
    /\ calls[i].locals = calls[j].locals

QueryThenFetch ==
    {"getEmails", "getRecentEmails", "search_emails", "advancedSearch", "getThread",
     "getContacts", "searchContacts", "getCalendarEvents"}

\* call i has ended on the answer to its Query/Fetch batch, and the Fetch
\* step's payload has a list
FetchAnswered(i) ==
    /\ calls[i].op \in QueryThenFetch
    /\ Answered(i)
    /\ Len(AnsweredCalls(i)) = 2
    /\ Len(Body(i)) = 2
    /\ "list" \in DOMAIN Body(i)[2].payload

\* C19: for every list or search operation built as Query then Fetch
\* (getEmails, getRecentEmails, search_emails, advancedSearch, getThread,
\* searchContacts, getCalendarEvents), the returned payload is exactly the
\* Fetch step's list in the order the service returned it, never re-ordered
\* into the Query step's id order.
C19_FetchOrderIsKept ==
    \A i \in CallIds :
        FetchAnswered(i)
        => /\ Returned(i)
           /\ calls[i].outcome.value = Def(Body(i)[2].payload.list)

\* a getThread whose Fetch step listed the records in another order than the
\* Query step listed their ids has returned them in the Fetch step's order
C19_Witness ==
    \E i \in CallIds :
        /\ FetchAnswered(i)
        /\ calls[i].op = "getThread"
        /\ Body(i)[1].payload.ids = <<1, 2>>
        /\ Body(i)[2].payload.list = <<[id |-> 2], [id |-> 1]>>
        /\ calls[i].outcome.value = Def(<<[id |-> 2], [id |-> 1]>>)

\* the operations that return what the last step of their batch fetched
FetchOperations ==
    QueryThenFetch \cup
    {"getMailboxes", "getIdentities", "getEmailById", "getEmailAttachments",
     "getMailboxStats", "getContactById", "getCalendars", "getCalendarEventById"}

\* call i has ended on a full answer to its fetch batch, in which the fetch
\* step has no list field or an empty list (no first record)
SubPathMissing(i) ==
    /\ calls[i].op \in FetchOperations
    /\ Answered(i)
    /\ calls[i].op = "getRecentEmails" => Len(AnsweredCalls(i)) = 2
    /\ Len(Body(i)) = Len(AnsweredCalls(i))
    /\ LET payload == Body(i)[Len(Body(i))].payload IN
       \/ "list" \notin DOMAIN payload
       \/ payload.list = <<>>

\* C20: for every fetch-type operation, when the step succeeded but the
\* requested sub-path (the list field, or the first record of the list) is
\* missing, the operation returns an empty or absent value and does not raise
\* an error.
C20_MissingSubPathIsNotAnError ==
    \A i \in CallIds : SubPathMissing(i) => Returned(i)

\* the exchanges of call i that were started and have not ended
InFlight(i) == Len(calls[i].sent) - calls[i].completed

\* C21: within one domain operation at most one network exchange is in
\* flight at any time: an exchange is outstanding exactly while the call
\* awaits it, and the next one starts only once it has ended.
C21_OneExchangeInFlight ==
    \A i \in CallIds :
        InFlight(i) = IF calls[i].pc \in {"awaitSession", "awaitBatch"} THEN 1 ELSE 0

C21_Witness ==
    \E i \in CallIds :
        /\ calls[i].op \in {"sendEmail", "getAccountSummary"}
        /\ Len(calls[i].sent) = 3
        /\ calls[i].completed = 2
        /\ calls[i].pc = "awaitBatch"

\* the Email/query step of the batch a get_recent_emails call has built
RecentQuery(i) == calls[i].request.methodCalls[1]

\* C22: get_recent_emails takes limit with default 10 and maximum 50: the
\* limit in the Query step is the requested value (10 when none is given)
\* capped at 50, and is never above 50.
C22_RecentLimitIsCapped ==
    \A i \in CallIds :
        calls[i].tool = "get_recent_emails" /\ calls[i].k = 2 =>
            LET requested == IF calls[i].given.limit.undef THEN 10
                             ELSE calls[i].given.limit.v
            IN /\ RecentQuery(i).args.limit = IF requested > 50 THEN 50 ELSE requested
               /\ RecentQuery(i).args.limit <= 50

C22_Witness ==
    \E i \in CallIds :
        /\ calls[i].tool = "get_recent_emails" /\ calls[i].k = 2
        /\ ~calls[i].given.limit.undef
        /\ calls[i].given.limit.v > 50
        /\ RecentQuery(i).name = "Email/query"
        /\ RecentQuery(i).args.limit = 50

\* call i is a sendEmail that has fetched the sending identities and was
\* given a from address that is the address of none of them (the addresses
\* of the worlds are in lower case, so comparing them after toLowerCase is
\* comparing them)
ForeignFrom(i) ==
    /\ calls[i].op = "sendEmail"
    /\ calls[i].k >= 2
    /\ calls[i].args.email.from # ""
    /\ \A n \in DOMAIN calls[i].locals.identities :
          calls[i].locals.identities[n].email # calls[i].args.email.from

\* C23: sendEmail validates the from address against the account's sending
\* identities: a from that matches none of them is rejected before any
\* create/submission batch is sent.
C23_ForeignFromIsRejected ==
    \A i \in CallIds :
        ForeignFrom(i) => /\ calls[i].k < 3
                          /\ Done(i) => Threw(i)

\* the batches of call i that ask for the address books
Fallbacks(i) ==
    {n \in DOMAIN calls[i].sent :
        /\ calls[i].sent[n].method = "POST"
        /\ calls[i].sent[n].body.methodCalls[1].name = "AddressBook/get"}

\* C24: getContacts (the variant with the AddressBook fallback) sends the
\* fallback request only after the primary batch has failed, sends it at
\* most once, and when the fallback fails too the error it raises carries
\* the message of the primary failure, not the one of the fallback.
C24_FallbackAfterPrimaryFailure ==
    \A i \in CallIds :
        calls[i].op = README_getContacts =>
            /\ Cardinality(Fallbacks(i)) <= 1
            /\ \A n \in Fallbacks(i) :
                  /\ n > 1
                  /\ calls[i].sent[n - 1].body =
                        README_getContactsRequest(calls[i].sess, calls[i].args.limit)
                  /\ calls[i].failed
            /\ calls[i].pc = "awaitBatch" /\ calls[i].k = 2 =>
                  /\ replyFailed(calls[i].reply)
                  /\ calls[i].locals.error.statusText = calls[i].reply.statusText
            /\ Done(i) /\ calls[i].k = 2 /\ replyFailed(calls[i].reply) =>
                  /\ Threw(i)
                  /\ calls[i].outcome.error.text = "Contacts not supported or accessible: "
                  /\ calls[i].outcome.error.about = <<calls[i].locals.error>>

C24_Witness ==
    \E i \in CallIds :
        /\ calls[i].op = README_getContacts
        /\ Cardinality(Fallbacks(i)) = 1
        /\ Threw(i)
        /\ calls[i].outcome.error.about # <<>>
        /\ calls[i].outcome.error.about[1].statusText = "Internal Server Error"
        /\ calls[i].reply.statusText = "Service Unavailable"

\* the ids the answered Email/set update batch of call i targets, and the ones
\* its answer reports as updated; a method-level error step reports none
Targeted(i) == DOMAIN AnsweredCalls(i)[1].args.update
Reported(i) ==
    IF Body(i)[1].name = "Email/set" /\ "updated" \in DOMAIN Body(i)[1].payload
    THEN Body(i)[1].payload.updated
    ELSE {}

\* C25: a mutating operation returns normally only if the response reports
\* every targeted id as updated: an answer whose step is a method-level
\* error, or that lists a targeted id neither as updated nor as rejected,
\* never yields a normal return.
C25_ReturnMeansAllUpdated ==
    \A i \in CallIds :
        (/\ calls[i].op \in SingleMutations \cup BulkMutations
         /\ SetAnswered(i)
         /\ Returned(i))
        => Targeted(i) \subseteq Reported(i)

\* the envelope recipients of the create/submit batch a sendEmail has built
EnvelopeRecipients(i) ==
    LET rcptTo == calls[i].request.methodCalls[2].args.create.submission.envelope.rcptTo
    IN {rcptTo[n].email : n \in DOMAIN rcptTo}

\* C26: in sendEmail every address given in to, cc or bcc appears among the
\* envelope recipients (rcptTo) of the submission.
C26_EveryAddresseeIsARecipient ==
    \A i \in CallIds :
        calls[i].op = "sendEmail" /\ calls[i].k = 3 =>
            Range(calls[i].args.email.to) \cup Range(calls[i].args.email.cc)
                \cup Range(calls[i].args.email.bcc) \subseteq EnvelopeRecipients(i)

\* the bootstrap GET of call i is answered in this step, and has failed
BootstrapFails(i) ==
    /\ calls[i].pc = "awaitSession"
    /\ calls'[i].pc # "awaitSession"
    /\ calls'[i].failed

\* call i starts in this step on a client whose session is not cached
StartsUncached(i) ==
    /\ calls[i].pc = "idle"
    /\ calls'[i].pc # "idle"
    /\ ~session[calls'[i].client].cached

\* C27: when the bootstrap request fails, getSession raises and leaves the
\* cache as it was, so a cache that was unpopulated stays unpopulated; the
\* next getSession on that client then issues a new bootstrap request.
C27_FailedBootstrapIsNotCached ==
    /\ [](\A c \in Clients : ~session[c].cached => session[c] = NoSession)
    /\ [][\A i \in CallIds :
            /\ BootstrapFails(i) =>
                  /\ calls'[i].pc = "done"
                  /\ calls'[i].outcome.kind = "throw"
                  /\ calls'[i].posts = calls[i].posts
                  /\ session' = session
            /\ StartsUncached(i) =>
                  /\ calls'[i].pc = "awaitSession"
                  /\ calls'[i].sent[1].method = "GET"
                  /\ sessionRequests'[calls'[i].client] =
                        sessionRequests[calls'[i].client] + 1]_vars

C27_Witness ==
    \E i, j \in CallIds :
        /\ i < j
        /\ calls[i].client = calls[j].client
        /\ Threw(i) /\ calls[i].failed /\ calls[i].gets = 1 /\ calls[i].posts = 0
        /\ ~session[calls[i].client].cached
        /\ calls[j].pc = "awaitSession"
        /\ sessionRequests[calls[i].client] = 2

\* the emails the service may hold under a targeted id
StoredEmails ==
    {[keywords |-> K, mailboxIds |-> {1}] : K \in SUBSET {"$seen", "$draft", "$flagged"}}

\* the service applies the patch of an Email/set update (RFC 8620, 5.3): a
\* key that names a property replaces the value of that property whole
applyPatch(email, patch) ==
    [p \in DOMAIN email |-> IF p \in DOMAIN patch THEN patch[p] ELSE email[p]]

\* call i, a markEmailRead or bulkMarkRead, has returned on an answer that
\* reports the email e as updated
MarkedRead(i, e) ==
    /\ calls[i].op \in {"markEmailRead", "bulkMarkRead"}
    /\ SetAnswered(i)
    /\ Returned(i)
    /\ e \in Targeted(i) \cap Reported(i)

\* C28: markEmailRead (and bulkMarkRead) changes only the read flag of the
\* email: whatever other keywords the email held ($draft, $flagged) it holds
\* after the update, and its mailboxes are the same.
C28_OnlyTheReadFlagChanges ==
    \A i \in CallIds : \A e \in EmailIds :
        MarkedRead(i, e) =>
            \A stored \in StoredEmails :
                LET after == applyPatch(stored, AnsweredCalls(i)[1].args.update[e])
                IN /\ after.keywords \ {"$seen"} = stored.keywords \ {"$seen"}
                   /\ after.mailboxIds = stored.mailboxIds

\* call i is a sendEmail given neither a text body nor an HTML body
WithoutBody(i) ==
    /\ calls[i].op = "sendEmail"
    /\ calls[i].via = "method"
    /\ calls[i].args.email.textBody = ""
    /\ calls[i].args.email.htmlBody = ""

\* C30: JmapClient.sendEmail called with neither textBody nor htmlBody fails
\* with the missing-body error before any network exchange is made.
C30_MissingBodyFailsBeforeAnyExchange ==
    \A i \in CallIds :
        WithoutBody(i) =>
            /\ calls[i].sent = <<>>
            /\ Threw(i)
            /\ calls[i].outcome.error.text = "Either textBody or htmlBody must be provided"

\* C29: every tool call completes, with a result or an error, provided every
\* network exchange it starts is answered or fails in the end; no operation
\* repeats an exchange without bound: a call makes at most four, the
\* bootstrap GET and the three batches of sendEmail.
C29_EveryCallCompletes ==
    /\ [](\A i \in CallIds : Len(calls[i].sent) <= 4)
    /\ \A i \in CallIds : (calls[i].pc # "idle") ~> Done(i)

C29_Witness ==
    \E i \in CallIds :
        /\ calls[i].via = "tool"
        /\ Done(i)
        /\ Len(calls[i].sent) = 4
        /\ calls[i].completed = 4

====
